---- MODULE Spec2Model ----
(***************************************************************************)
(* Symbolic model of the zkgroup orchestration layer                       *)
(* (rust/zkgroup/src/api/server_params.rs): ServerSecretParams and         *)
(* ServerPublicParams, the issue / receive / present / verify flows of the *)
(* five credential kinds.                                                  *)
(*                                                                         *)
(* The orchestration functions are translated one operator per function.   *)
(* The collaborators they call (crate::common::sho, crate::crypto::*,      *)
(* api::groups, the request / commitment accessors) are not part of the    *)
(* source excerpt; they are modelled symbolically from their contracts:    *)
(* a key pair is the Sho draw it was generated from, a ciphertext is the   *)
(* term (key, plaintext, nonce), a credential is the term (issuer key,     *)
(* attributes, nonce), and a proof is the term (relation, public           *)
(* statement, whether the witness satisfied the relation).                 *)
(***************************************************************************)
EXTENDS Integers, Sequences, FiniteSets, TLC

\* ------------------------------------------------------------------ bounds
MaxRandomness == 2
MaxUid == 2
MaxProfileKey == 2
MaxTime == 2

Randomness == 1..MaxRandomness       \* RandomnessBytes values
UidBytes == 1..MaxUid                \* UidBytes values (aci, pni)
ProfileKeys == 1..MaxProfileKey      \* api::profiles::ProfileKey values
Times == 1..MaxTime                  \* RedemptionTime / ReceiptExpirationTime
ReceiptSerials == 1..MaxUid          \* ReceiptSerialBytes values
ReceiptLevels == 1..MaxTime          \* ReceiptLevel values

\* ------------------------------------------------------- version constants
PRESENTATION_VERSION_1 == 0
PRESENTATION_VERSION_2 == 1
PROFILE_KEY_CREDENTIAL_VERSION_3 == 2
ReservedDefault == 0

\* ------------------------------------------------------------ Sho (4.1)
\* The labels of the streams the program instantiates, in source order
\* (server_params.rs), then the group parameters' label.
Labels ==
    <<
      "Signal_ZKGroup_20200424_Random_ServerSecretParams_Generate",
      "Signal_ZKGroup_20200424_Random_ServerSecretParams_Sign",
      "Signal_ZKGroup_20200424_Random_ServerSecretParams_IssueAuthCredential",
      "Signal_ZKGroup_20200424_Random_ServerSecretParams_IssueProfileKeyCredential",
      "Signal_ZKGroup_20220508_Random_ServerSecretParams_IssueProfileKeyCredentialV3",
      "Signal_ZKGroup_20211111_Random_ServerSecretParams_IssuePniCredential",
      "Signal_ZKGroup_20210919_Random_ServerSecretParams_IssueReceiptCredential",
      "Signal_ZKGroup_20200424_Random_ServerPublicParams_CreateAuthCredentialPresentation",
      "Signal_ZKGroup_20220120_Random_ServerPublicParams_CreateAuthCredentialPresentationV2",
      "Signal_ZKGroup_20200424_Random_ServerPublicParams_CreateProfileKeyCredentialRequestContext",
      "Signal_ZKGroup_20220528_Random_ServerPublicParams_CreateProfileKeyCredentialV3RequestContext",
      "Signal_ZKGroup_20200424_Random_ServerPublicParams_CreateProfileKeyCredentialPresentation",
      "Signal_ZKGroup_20220120_Random_ServerPublicParams_CreateProfileKeyCredentialPresentationV2",
      "Signal_ZKGroup_20220508_Random_ServerPublicParams_CreateProfileKeyCredentialV3Presentation",
      "Signal_ZKGroup_20211111_Random_ServerPublicParams_CreatePniCredentialPresentation",
      "Signal_ZKGroup_20220120_Random_ServerPublicParams_CreatePniCredentialPresentationV2",
      "Signal_ZKGroup_20210919_Random_ServerPublicParams_CreateReceiptCredentialRequestContext",
      "Signal_ZKGroup_20210919_Random_ServerPublicParams_CreateReceiptCredentialPresentation",
      "Signal_ZKGroup_20200424_Random_GroupSecretParams_Generate"
    >>

\* A stream is identified by its label and its seed; the label is kept as its
\* position in Labels (equal positions iff equal strings).
LabelId(label) == CHOOSE k \in DOMAIN Labels : Labels[k] = label

\* Sho::new(label, randomness): a stream keyed by (label, seed).
Sho_new(label, randomness) == [label |-> LabelId(label), seed |-> randomness]

\* The i-th output drawn from the stream (i counts the draws in call order).
Sho_draw(sho, i) == [label |-> sho.label, seed |-> sho.seed, n |-> i]

\* --------------------------------------------------- Result<T, E>, `?`
Ok(v) == [ok |-> TRUE, value |-> v]
ZkGroupVerificationFailure == [ok |-> FALSE, err |-> "ZkGroupVerificationFailure"]

\* Result<(), ZkGroupVerificationFailure> of a proof's verify
Unit == [unit |-> TRUE]
AsResult(accepted) == IF accepted THEN Ok(Unit) ELSE ZkGroupVerificationFailure

\* ------------------------------------------------- attribute structures
UidStruct_new(uid_bytes) == [uid_bytes |-> uid_bytes]

ProfileKeyStruct_new(profile_key_bytes, uid_bytes) ==
    [bytes |-> profile_key_bytes, uid_bytes |-> uid_bytes]

ReceiptStruct_new(receipt_serial_bytes, receipt_expiration_time, receipt_level) ==
    [receipt_serial_bytes |-> receipt_serial_bytes,
     receipt_expiration_time |-> receipt_expiration_time,
     receipt_level |-> receipt_level]

\* ------------------------------------------------------------ key pairs
\* KeyPair::generate(&mut sho): the key pair is the draw it was made from.
KeyPair_generate(sho, i) == [secret |-> Sho_draw(sho, i)]

\* key_pair.get_public_key(): the public half names the secret it belongs to
\* without being usable in its place.
get_public_key(key_pair) == [public_of |-> key_pair.secret]

\* ----------------------------------------------------------- commitment
\* CommitmentWithSecretNonce::new(profile_key_struct, uid_bytes): deterministic
\* in its two arguments.
CommitmentWithSecretNonce_new(profile_key_struct, uid_bytes) ==
    [commitment |-> [committed |-> profile_key_struct, uid_bytes |-> uid_bytes],
     nonce |-> [of |-> profile_key_struct, uid_bytes |-> uid_bytes]]

get_profile_key_commitment(commitment_with_secret_nonce) ==
    commitment_with_secret_nonce.commitment

\* profile_key.get_commitment(uid_bytes): the published ProfileKeyCommitment.
ProfileKey_get_commitment(profile_key, uid_bytes) ==
    [reserved |-> ReservedDefault,
     commitment |-> get_profile_key_commitment(
         CommitmentWithSecretNonce_new(
             ProfileKeyStruct_new(profile_key, uid_bytes), uid_bytes))]

\* ----------------------------------------- one-time request encryption
\* key_pair.encrypt(plaintext, &mut sho) of profile_key_credential_request /
\* receipt_credential_request.
RequestKeyPair_encrypt(key_pair, plaintext, sho, i) ==
    [ciphertext |-> [key |-> get_public_key(key_pair),
                     plain |-> plaintext,
                     rnd |-> Sho_draw(sho, i)],
     nonce |-> Sho_draw(sho, i)]

get_ciphertext(ciphertext_with_secret_nonce) ==
    ciphertext_with_secret_nonce.ciphertext

\* What the holder of key_pair recovers from a one-time ciphertext.
Garbage == [garbage |-> TRUE]

RequestKeyPair_decrypt(key_pair, ciphertext) ==
    IF ciphertext.key = get_public_key(key_pair) THEN ciphertext.plain ELSE Garbage

\* --------------------------------------------------------------- proofs
\* A proof is made for one relation over one public statement; it is sound
\* iff the witnesses given to `new` satisfied the relation.  `verify`
\* accepts iff the proof is sound and was made for exactly the statement the
\* verifier recomputes from its own inputs.
Proof_new(relation, statement, holds, sho, i) ==
    [relation |-> relation, statement |-> statement, sound |-> holds,
     rnd |-> Sho_draw(sho, i)]

Proof_verify(proof, relation, statement) ==
    /\ proof.relation = relation
    /\ proof.sound
    /\ proof.statement = statement


\* ---------------------------------------------------------- credentials
\* key_pair.create_auth_credential(uid, redemption_time, &mut sho): a MAC of
\* the issuer's secret key over the attributes.
create_auth_credential(key_pair, uid, redemption_time, sho, i) ==
    [scheme |-> "AuthCredential",
     issuer |-> key_pair.secret,
     attrs |-> [uid |-> uid, redemption_time |-> redemption_time],
     rnd |-> Sho_draw(sho, i)]

\* key_pair.create_blinded_<kind>_credential(attributes.., public_key,
\* ciphertext, &mut sho): a MAC over the issuer-known attributes and over the
\* attribute hidden in the holder's ciphertext, encrypted to the holder's
\* one-time public key.
create_blinded_credential(scheme, key_pair, attrs, public_key, ciphertext, sho, i) ==
    [blinded |-> [scheme |-> scheme,
                  issuer |-> key_pair.secret,
                  attrs |-> attrs,
                  public_key |-> public_key,
                  ciphertext |-> ciphertext,
                  rnd |-> Sho_draw(sho, i)],
     nonce |-> Sho_draw(sho, i)]

\* blinded_credential_with_secret_nonce.get_blinded_<kind>_credential()
get_blinded_credential(blinded_credential_with_secret_nonce) ==
    blinded_credential_with_secret_nonce.blinded

\* key_pair.decrypt_blinded_<kind>_credential(blinded_credential): unblinding
\* with the holder's one-time key pair.
decrypt_blinded_credential(key_pair, blinded_credential) ==
    [scheme |-> blinded_credential.scheme,
     issuer |-> IF blinded_credential.public_key = get_public_key(key_pair)
                THEN blinded_credential.issuer ELSE Garbage,
     attrs |-> blinded_credential.attrs,
     hidden |-> RequestKeyPair_decrypt(key_pair, blinded_credential.ciphertext),
     rnd |-> blinded_credential.rnd]

\* The credential is a valid MAC under the key pair that public_key belongs to.
CredentialValidUnder(credential, public_key) ==
    public_key = [public_of |-> credential.issuer]

\* ------------------------------------------------------ group encryption
\* GroupSecretParams::generate(randomness) / derive_from_master_key.
GroupSecretParams_generate(randomness) ==
    LET sho == Sho_new("Signal_ZKGroup_20200424_Random_GroupSecretParams_Generate",
                       randomness)
    IN  [reserved |-> ReservedDefault,
         uid_enc_key_pair |-> KeyPair_generate(sho, 0),
         profile_key_enc_key_pair |-> KeyPair_generate(sho, 1)]

GroupSecretParams_get_public_params(group_secret_params) ==
    [reserved |-> ReservedDefault,
     uid_enc_public_key |-> get_public_key(group_secret_params.uid_enc_key_pair),
     profile_key_enc_public_key |->
         get_public_key(group_secret_params.profile_key_enc_key_pair)]

\* The ciphertext of a plaintext under a group encryption key pair: the call
\* takes no randomness, so it is a function of (key pair, plaintext).
GroupCiphertext(key_pair, plaintext) ==
    [key |-> get_public_key(key_pair), plain |-> plaintext]

\* Decryption of a group ciphertext: the plaintext for the key pair it was
\* encrypted under, a failure for every other key pair.
GroupDecrypt(key_pair, ciphertext) ==
    IF "key" \in DOMAIN ciphertext /\ ciphertext.key = get_public_key(key_pair)
    THEN Ok(ciphertext.plain)
    ELSE ZkGroupVerificationFailure

encrypt_uid_struct(group_secret_params, uid) ==
    [reserved |-> ReservedDefault,
     ciphertext |-> GroupCiphertext(group_secret_params.uid_enc_key_pair, uid)]

encrypt_uuid(group_secret_params, uid_bytes) ==
    encrypt_uid_struct(group_secret_params, UidStruct_new(uid_bytes))

encrypt_profile_key_bytes(group_secret_params, profile_key_bytes, uid_bytes) ==
    [reserved |-> ReservedDefault,
     ciphertext |-> GroupCiphertext(group_secret_params.profile_key_enc_key_pair,
                                    ProfileKeyStruct_new(profile_key_bytes, uid_bytes))]

\* ------------------------------------------------------ proof relations
\* ProfileKeyCredentialRequestProof: "the ciphertext under the holder's
\* one-time public key encrypts the attribute committed to in the commitment".
ProfileKeyCredentialRequestProof_new(key_pair, ciphertext_with_secret_nonce, commitment_with_secret_nonce, sho, i) ==
    LET ciphertext == get_ciphertext(ciphertext_with_secret_nonce)
        commitment == get_profile_key_commitment(commitment_with_secret_nonce)
    IN  Proof_new("ProfileKeyCredentialRequestProof",
                  <<get_public_key(key_pair), ciphertext, commitment>>,
                  /\ ciphertext.key = get_public_key(key_pair)
                  /\ ciphertext.plain = commitment.committed,
                  sho, i)

ProfileKeyCredentialRequestProof_verify(proof, public_key, ciphertext, commitment) ==
    Proof_verify(proof, "ProfileKeyCredentialRequestProof",
                 <<public_key, ciphertext, commitment>>)

\* AuthCredentialIssuanceProof: "the credential is the issuer's MAC over
\* (uid, redemption_time)".
AuthCredentialIssuanceProof_new(key_pair, credential, uid, redemption_time, sho, i) ==
    Proof_new("AuthCredentialIssuanceProof",
              <<get_public_key(key_pair), credential, uid, redemption_time>>,
              /\ credential.issuer = key_pair.secret
              /\ credential.attrs = [uid |-> uid, redemption_time |-> redemption_time],
              sho, i)

AuthCredentialIssuanceProof_verify(proof, public_key, credential, uid, redemption_time) ==
    Proof_verify(proof, "AuthCredentialIssuanceProof",
                 <<public_key, credential, uid, redemption_time>>)

\* <Kind>IssuanceProof for the blinded kinds: "the blinded credential was
\* derived from the issuer's secret key, the issuer-known attributes and the
\* holder's ciphertext / public key".
BlindedIssuanceProof_new(relation, key_pair, request_public_key, request, blinded_credential_with_secret_nonce, attrs, sho, i) ==
    LET blinded == get_blinded_credential(blinded_credential_with_secret_nonce)
    IN  Proof_new(relation,
                  <<get_public_key(key_pair), request_public_key, request, blinded, attrs>>,
                  /\ blinded.issuer = key_pair.secret
                  /\ blinded.attrs = attrs
                  /\ blinded.public_key = request_public_key
                  /\ blinded.ciphertext = request,
                  sho, i)

BlindedIssuanceProof_verify(proof, relation, credentials_public_key, request_public_key, request, blinded_credential, attrs) ==
    Proof_verify(proof, relation,
                 <<credentials_public_key, request_public_key, request,
                   blinded_credential, attrs>>)

\* AuthCredentialPresentationProofV1 / V2: "the ciphertext decrypts under the
\* group's uid key to the uid of a credential valid under the issuer's key,
\* issued for redemption_time".
AuthCredentialPresentationProof_new(relation, credentials_public_key, uid_enc_key_pair, credential, uid, uid_ciphertext, redemption_time, sho, i) ==
    Proof_new(relation,
              <<credentials_public_key, get_public_key(uid_enc_key_pair),
                uid_ciphertext, redemption_time>>,
              /\ CredentialValidUnder(credential, credentials_public_key)
              /\ credential.attrs = [uid |-> uid, redemption_time |-> redemption_time]
              /\ uid_ciphertext = GroupCiphertext(uid_enc_key_pair, uid),
              sho, i)

AuthCredentialPresentationProof_verify(proof, relation, credentials_key_pair, uid_enc_public_key, uid_ciphertext, redemption_time) ==
    Proof_verify(proof, relation,
                 <<get_public_key(credentials_key_pair), uid_enc_public_key,
                   uid_ciphertext, redemption_time>>)

\* ProfileKeyCredentialPresentationProofV1 / V2 and
\* ProfileKeyCredentialV3PresentationProof: "the two ciphertexts decrypt under
\* the group's keys to the uid and profile key of a credential valid under
\* the issuer's key".
ProfileKeyCredentialPresentationProof_new(relation, uid_enc_key_pair, profile_key_enc_key_pair, credentials_public_key, credential, uid_enc_ciphertext, profile_key_enc_ciphertext, uid_bytes, profile_key_bytes, sho, i) ==
    Proof_new(relation,
              <<credentials_public_key,
                uid_enc_ciphertext, get_public_key(uid_enc_key_pair),
                profile_key_enc_ciphertext, get_public_key(profile_key_enc_key_pair)>>,
              /\ CredentialValidUnder(credential, credentials_public_key)
              /\ credential.attrs = [uid |-> UidStruct_new(uid_bytes)]
              /\ credential.hidden = ProfileKeyStruct_new(profile_key_bytes, uid_bytes)
              /\ uid_enc_ciphertext =
                     GroupCiphertext(uid_enc_key_pair, UidStruct_new(uid_bytes))
              /\ profile_key_enc_ciphertext =
                     GroupCiphertext(profile_key_enc_key_pair,
                                     ProfileKeyStruct_new(profile_key_bytes, uid_bytes)),
              sho, i)

ProfileKeyCredentialPresentationProof_verify(proof, relation, credentials_key_pair, uid_enc_ciphertext, uid_enc_public_key, profile_key_enc_ciphertext, profile_key_enc_public_key) ==
    Proof_verify(proof, relation,
                 <<get_public_key(credentials_key_pair),
                   uid_enc_ciphertext, uid_enc_public_key,
                   profile_key_enc_ciphertext, profile_key_enc_public_key>>)

\* PniCredentialPresentationProofV1 / V2: as for the profile key, with the
\* pni ciphertext bound as a third hidden attribute.
PniCredentialPresentationProof_new(relation, uid_enc_key_pair, profile_key_enc_key_pair, credentials_public_key, credential, aci_enc_ciphertext, pni_enc_ciphertext, profile_key_enc_ciphertext, aci_bytes, pni_bytes, profile_key_bytes, sho, i) ==
    Proof_new(relation,
              <<credentials_public_key,
                aci_enc_ciphertext, get_public_key(uid_enc_key_pair),
                profile_key_enc_ciphertext, get_public_key(profile_key_enc_key_pair),
                pni_enc_ciphertext>>,
              /\ CredentialValidUnder(credential, credentials_public_key)
              /\ credential.attrs = [uid |-> UidStruct_new(aci_bytes),
                                     pni |-> UidStruct_new(pni_bytes)]
              /\ credential.hidden = ProfileKeyStruct_new(profile_key_bytes, aci_bytes)
              /\ aci_enc_ciphertext =
                     GroupCiphertext(uid_enc_key_pair, UidStruct_new(aci_bytes))
              /\ pni_enc_ciphertext =
                     GroupCiphertext(uid_enc_key_pair, UidStruct_new(pni_bytes))
              /\ profile_key_enc_ciphertext =
                     GroupCiphertext(profile_key_enc_key_pair,
                                     ProfileKeyStruct_new(profile_key_bytes, aci_bytes)),
              sho, i)

PniCredentialPresentationProof_verify(proof, relation, credentials_key_pair, aci_enc_ciphertext, uid_enc_public_key, profile_key_enc_ciphertext, profile_key_enc_public_key, pni_enc_ciphertext) ==
    Proof_verify(proof, relation,
                 <<get_public_key(credentials_key_pair),
                   aci_enc_ciphertext, uid_enc_public_key,
                   profile_key_enc_ciphertext, profile_key_enc_public_key,
                   pni_enc_ciphertext>>)

\* ReceiptCredentialPresentationProof: "the credential is valid under the
\* issuer's key"; the attributes it was issued over are what the verifier
\* recomputes from the presentation's receipt struct.
ReceiptCredentialPresentationProof_new(credentials_public_key, credential, sho, i) ==
    Proof_new("ReceiptCredentialPresentationProof",
              <<credentials_public_key,
                [serial |-> credential.hidden,
                 receipt_expiration_time |-> credential.attrs.receipt_expiration_time,
                 receipt_level |-> credential.attrs.receipt_level]>>,
              CredentialValidUnder(credential, credentials_public_key),
              sho, i)

ReceiptCredentialPresentationProof_verify(proof, credentials_key_pair, receipt_struct) ==
    Proof_verify(proof, "ReceiptCredentialPresentationProof",
                 <<get_public_key(credentials_key_pair),
                   [serial |-> [receipt_serial_bytes |-> receipt_struct.receipt_serial_bytes],
                    receipt_expiration_time |-> receipt_struct.receipt_expiration_time,
                    receipt_level |-> receipt_struct.receipt_level]>>)

\* ------------------------------------------------- request accessors
\* ProfileKeyCredentialRequestContext / ProfileKeyCredentialV3RequestContext /
\* PniCredentialRequestContext :: get_request()
ProfileKeyCredentialRequestContext_get_request(context) ==
    [reserved |-> ReservedDefault,
     public_key |-> get_public_key(context.key_pair),
     ciphertext |-> get_ciphertext(context.ciphertext_with_secret_nonce),
     proof |-> context.proof]

\* ReceiptCredentialRequestContext::get_request()
ReceiptCredentialRequestContext_get_request(context) ==
    [reserved |-> ReservedDefault,
     public_key |-> get_public_key(context.key_pair),
     ciphertext |-> get_ciphertext(context.ciphertext_with_secret_nonce)]

\* ProfileKeyCredentialV3Presentation::get_uuid_ciphertext()
get_uuid_ciphertext(presentation) ==
    [reserved |-> ReservedDefault,
     ciphertext |-> presentation.uid_enc_ciphertext]

\* ProfileKeyCredentialV3Presentation::get_profile_key_ciphertext()
get_profile_key_ciphertext(presentation) ==
    [reserved |-> ReservedDefault,
     ciphertext |-> presentation.profile_key_enc_ciphertext]

\* ReceiptCredentialPresentation::get_receipt_struct()
get_receipt_struct(presentation) ==
    ReceiptStruct_new(presentation.receipt_serial_bytes,
                      presentation.receipt_expiration_time,
                      presentation.receipt_level)

\* ------------------------------------------------------------ signatures
\* key_pair.sign(message, &mut sho): a signature names the secret key it was
\* made with and the message it was made for.
KeyPair_sign(key_pair, message, sho, i) ==
    [signer |-> key_pair.secret, message |-> message, rnd |-> Sho_draw(sho, i)]

\* public_key.verify(message, signature): accepts iff the signature was made
\* for this message with the secret key that public_key belongs to.
PublicKey_verify(public_key, message, signature) ==
    AsResult(/\ public_key = [public_of |-> signature.signer]
             /\ signature.message = message)

\* =========================================================================
\* impl ServerSecretParams
\* =========================================================================
\* Faulty variant of generate: the Sho is seeded without the randomness, so
\* every server draws the same key pairs.
generate_ignoring_randomness(randomness) ==
    LET sho == Sho_new("Signal_ZKGroup_20200424_Random_ServerSecretParams_Generate",
                       ReservedDefault)
    IN  [reserved |-> ReservedDefault,
         auth_credentials_key_pair |-> KeyPair_generate(sho, 0),
         profile_key_credentials_key_pair |-> KeyPair_generate(sho, 1),
         sig_key_pair |-> KeyPair_generate(sho, 2),
         receipt_credentials_key_pair |-> KeyPair_generate(sho, 3),
         pni_credentials_key_pair |-> KeyPair_generate(sho, 4),
         profile_key_credentials_v3_key_pair |-> KeyPair_generate(sho, 5)]

\* Faulty variant of generate: the profile key V3 key pair is drawn first, so
\* the five older key pairs move one draw down the stream.
generate_v3_first(randomness) ==
    LET sho == Sho_new("Signal_ZKGroup_20200424_Random_ServerSecretParams_Generate",
                       randomness)
    IN  [reserved |-> ReservedDefault,
         auth_credentials_key_pair |-> KeyPair_generate(sho, 1),
         profile_key_credentials_key_pair |-> KeyPair_generate(sho, 2),
         sig_key_pair |-> KeyPair_generate(sho, 3),
         receipt_credentials_key_pair |-> KeyPair_generate(sho, 4),
         pni_credentials_key_pair |-> KeyPair_generate(sho, 5),
         profile_key_credentials_v3_key_pair |-> KeyPair_generate(sho, 0)]

generate(randomness) ==
    LET sho == Sho_new("Signal_ZKGroup_20200424_Random_ServerSecretParams_Generate",
                       randomness)
    IN  [reserved |-> ReservedDefault,
         auth_credentials_key_pair |-> KeyPair_generate(sho, 0),
         profile_key_credentials_key_pair |-> KeyPair_generate(sho, 1),
         sig_key_pair |-> KeyPair_generate(sho, 2),
         receipt_credentials_key_pair |-> KeyPair_generate(sho, 3),
         pni_credentials_key_pair |-> KeyPair_generate(sho, 4),
         profile_key_credentials_v3_key_pair |-> KeyPair_generate(sho, 5)]

\* Faulty variant of get_public_params: the pni and the profile key V3 public
\* keys are taken from each other's key pair.
get_public_params_swapped(self) ==
    [reserved |-> ReservedDefault,
     auth_credentials_public_key |-> get_public_key(self.auth_credentials_key_pair),
     profile_key_credentials_public_key |->
         get_public_key(self.profile_key_credentials_key_pair),
     sig_public_key |-> get_public_key(self.sig_key_pair),
     receipt_credentials_public_key |-> get_public_key(self.receipt_credentials_key_pair),
     pni_credentials_public_key |->
         get_public_key(self.profile_key_credentials_v3_key_pair),
     profile_key_credentials_v3_public_key |->
         get_public_key(self.pni_credentials_key_pair)]

get_public_params(self) ==
    [reserved |-> ReservedDefault,
     auth_credentials_public_key |-> get_public_key(self.auth_credentials_key_pair),
     profile_key_credentials_public_key |->
         get_public_key(self.profile_key_credentials_key_pair),
     sig_public_key |-> get_public_key(self.sig_key_pair),
     receipt_credentials_public_key |-> get_public_key(self.receipt_credentials_key_pair),
     pni_credentials_public_key |-> get_public_key(self.pni_credentials_key_pair),
     profile_key_credentials_v3_public_key |->
         get_public_key(self.profile_key_credentials_v3_key_pair)]

sign(self, randomness, message) ==
    LET sho == Sho_new("Signal_ZKGroup_20200424_Random_ServerSecretParams_Sign",
                       randomness)
    IN  KeyPair_sign(self.sig_key_pair, message, sho, 0)

\* The issue_* and receive_* operators return [ret, calls]: the function's
\* return value and the collaborator calls it made, in program order.

\* Returns the response itself: the function has no Result type.
issue_auth_credential(self, randomness, uid_bytes, redemption_time) ==
    LET sho == Sho_new(
            "Signal_ZKGroup_20200424_Random_ServerSecretParams_IssueAuthCredential",
            randomness)
        uid == UidStruct_new(uid_bytes)
        credential == create_auth_credential(self.auth_credentials_key_pair, uid,
                                             redemption_time, sho, 0)
        proof == AuthCredentialIssuanceProof_new(self.auth_credentials_key_pair,
                                                 credential, uid, redemption_time, sho, 1)
    IN  [ret |-> [reserved |-> ReservedDefault,
                  credential |-> credential,
                  proof |-> proof],
         calls |-> <<"create_auth_credential", "AuthCredentialIssuanceProof::new">>]

\* Faulty variant of issue_profile_key_credential: the request proof is never
\* verified (lines 337-341 left out).
issue_profile_key_credential_skip_verify(self, randomness, request, uid_bytes, commitment) ==
    LET sho == Sho_new(
            "Signal_ZKGroup_20200424_Random_ServerSecretParams_IssueProfileKeyCredential",
            randomness)
        uid == UidStruct_new(uid_bytes)
        blinded_credential_with_secret_nonce ==
            create_blinded_credential("ProfileKeyCredential",
                                      self.profile_key_credentials_key_pair,
                                      [uid |-> uid], request.public_key,
                                      request.ciphertext, sho, 0)
        proof == BlindedIssuanceProof_new("ProfileKeyCredentialIssuanceProof",
                                          self.profile_key_credentials_key_pair,
                                          request.public_key, request.ciphertext,
                                          blinded_credential_with_secret_nonce,
                                          [uid |-> uid], sho, 1)
    IN  [ret |-> Ok([reserved |-> ReservedDefault,
                     blinded_credential |->
                         get_blinded_credential(blinded_credential_with_secret_nonce),
                     proof |-> proof]),
         calls |-> <<"create_blinded_profile_key_credential",
                     "ProfileKeyCredentialIssuanceProof::new",
                     "get_blinded_profile_key_credential">>]

issue_profile_key_credential(self, randomness, request, uid_bytes, commitment) ==
    LET sho == Sho_new(
            "Signal_ZKGroup_20200424_Random_ServerSecretParams_IssueProfileKeyCredential",
            randomness)
        verified == ProfileKeyCredentialRequestProof_verify(
                        request.proof, request.public_key, request.ciphertext,
                        commitment.commitment)
        uid == UidStruct_new(uid_bytes)
        blinded_credential_with_secret_nonce ==
            create_blinded_credential("ProfileKeyCredential",
                                      self.profile_key_credentials_key_pair,
                                      [uid |-> uid], request.public_key,
                                      request.ciphertext, sho, 0)
        proof == BlindedIssuanceProof_new("ProfileKeyCredentialIssuanceProof",
                                          self.profile_key_credentials_key_pair,
                                          request.public_key, request.ciphertext,
                                          blinded_credential_with_secret_nonce,
                                          [uid |-> uid], sho, 1)
    IN  IF ~verified
        THEN [ret |-> ZkGroupVerificationFailure,
              calls |-> <<"ProfileKeyCredentialRequestProof::verify">>]
        ELSE [ret |-> Ok([reserved |-> ReservedDefault,
                          blinded_credential |->
                              get_blinded_credential(blinded_credential_with_secret_nonce),
                          proof |-> proof]),
              calls |-> <<"ProfileKeyCredentialRequestProof::verify",
                          "create_blinded_profile_key_credential",
                          "ProfileKeyCredentialIssuanceProof::new",
                          "get_blinded_profile_key_credential">>]

\* Faulty variant of issue_profile_key_credential_v3: the request proof is
\* verified but the outcome is dropped (the `?` of line 386 left out).
issue_profile_key_credential_v3_unchecked(self, randomness, request, uid_bytes, commitment) ==
    LET sho == Sho_new(
            "Signal_ZKGroup_20220508_Random_ServerSecretParams_IssueProfileKeyCredentialV3",
            randomness)
        uid == UidStruct_new(uid_bytes)
        blinded_credential_with_secret_nonce ==
            create_blinded_credential("ProfileKeyCredentialV3",
                                      self.profile_key_credentials_v3_key_pair,
                                      [uid |-> uid], request.public_key,
                                      request.ciphertext, sho, 0)
        proof == BlindedIssuanceProof_new("ProfileKeyCredentialV3IssuanceProof",
                                          self.profile_key_credentials_v3_key_pair,
                                          request.public_key, request.ciphertext,
                                          blinded_credential_with_secret_nonce,
                                          [uid |-> uid], sho, 1)
    IN  [ret |-> Ok([reserved |-> ReservedDefault,
                     blinded_credential |->
                         get_blinded_credential(blinded_credential_with_secret_nonce),
                     proof |-> proof]),
         calls |-> <<"ProfileKeyCredentialRequestProof::verify",
                     "create_blinded_profile_key_credential_v3",
                     "ProfileKeyCredentialV3IssuanceProof::new",
                     "get_blinded_profile_key_credential_v3">>]

issue_profile_key_credential_v3(self, randomness, request, uid_bytes, commitment) ==
    LET sho == Sho_new(
            "Signal_ZKGroup_20220508_Random_ServerSecretParams_IssueProfileKeyCredentialV3",
            randomness)
        verified == ProfileKeyCredentialRequestProof_verify(
                        request.proof, request.public_key, request.ciphertext,
                        commitment.commitment)
        uid == UidStruct_new(uid_bytes)
        blinded_credential_with_secret_nonce ==
            create_blinded_credential("ProfileKeyCredentialV3",
                                      self.profile_key_credentials_v3_key_pair,
                                      [uid |-> uid], request.public_key,
                                      request.ciphertext, sho, 0)
        proof == BlindedIssuanceProof_new("ProfileKeyCredentialV3IssuanceProof",
                                          self.profile_key_credentials_v3_key_pair,
                                          request.public_key, request.ciphertext,
                                          blinded_credential_with_secret_nonce,
                                          [uid |-> uid], sho, 1)
    IN  IF ~verified
        THEN [ret |-> ZkGroupVerificationFailure,
              calls |-> <<"ProfileKeyCredentialRequestProof::verify">>]
        ELSE [ret |-> Ok([reserved |-> ReservedDefault,
                          blinded_credential |->
                              get_blinded_credential(blinded_credential_with_secret_nonce),
                          proof |-> proof]),
              calls |-> <<"ProfileKeyCredentialRequestProof::verify",
                          "create_blinded_profile_key_credential_v3",
                          "ProfileKeyCredentialV3IssuanceProof::new",
                          "get_blinded_profile_key_credential_v3">>]

\* Faulty variant of issue_pni_credential: the blinded credential and the
\* issuance proof are created before the request proof is verified.
issue_pni_credential_verify_last(self, randomness, request, uid_bytes, pni_bytes, commitment) ==
    LET sho == Sho_new(
            "Signal_ZKGroup_20211111_Random_ServerSecretParams_IssuePniCredential",
            randomness)
        uid == UidStruct_new(uid_bytes)
        pni == UidStruct_new(pni_bytes)
        blinded_credential_with_secret_nonce ==
            create_blinded_credential("PniCredential", self.pni_credentials_key_pair,
                                      [uid |-> uid, pni |-> pni], request.public_key,
                                      request.ciphertext, sho, 0)
        proof == BlindedIssuanceProof_new("PniCredentialIssuanceProof",
                                          self.pni_credentials_key_pair,
                                          request.public_key, request.ciphertext,
                                          blinded_credential_with_secret_nonce,
                                          [uid |-> uid, pni |-> pni], sho, 1)
        verified == ProfileKeyCredentialRequestProof_verify(
                        request.proof, request.public_key, request.ciphertext,
                        commitment.commitment)
    IN  IF ~verified
        THEN [ret |-> ZkGroupVerificationFailure,
              calls |-> <<"create_blinded_pni_credential",
                          "PniCredentialIssuanceProof::new",
                          "ProfileKeyCredentialRequestProof::verify">>]
        ELSE [ret |-> Ok([reserved |-> ReservedDefault,
                          blinded_credential |->
                              get_blinded_credential(blinded_credential_with_secret_nonce),
                          proof |-> proof]),
              calls |-> <<"create_blinded_pni_credential",
                          "PniCredentialIssuanceProof::new",
                          "ProfileKeyCredentialRequestProof::verify",
                          "get_blinded_pni_credential">>]

issue_pni_credential(self, randomness, request, uid_bytes, pni_bytes, commitment) ==
    LET sho == Sho_new(
            "Signal_ZKGroup_20211111_Random_ServerSecretParams_IssuePniCredential",
            randomness)
        verified == ProfileKeyCredentialRequestProof_verify(
                        request.proof, request.public_key, request.ciphertext,
                        commitment.commitment)
        uid == UidStruct_new(uid_bytes)
        pni == UidStruct_new(pni_bytes)
        blinded_credential_with_secret_nonce ==
            create_blinded_credential("PniCredential", self.pni_credentials_key_pair,
                                      [uid |-> uid, pni |-> pni], request.public_key,
                                      request.ciphertext, sho, 0)
        proof == BlindedIssuanceProof_new("PniCredentialIssuanceProof",
                                          self.pni_credentials_key_pair,
                                          request.public_key, request.ciphertext,
                                          blinded_credential_with_secret_nonce,
                                          [uid |-> uid, pni |-> pni], sho, 1)
    IN  IF ~verified
        THEN [ret |-> ZkGroupVerificationFailure,
              calls |-> <<"ProfileKeyCredentialRequestProof::verify">>]
        ELSE [ret |-> Ok([reserved |-> ReservedDefault,
                          blinded_credential |->
                              get_blinded_credential(blinded_credential_with_secret_nonce),
                          proof |-> proof]),
              calls |-> <<"ProfileKeyCredentialRequestProof::verify",
                          "create_blinded_pni_credential",
                          "PniCredentialIssuanceProof::new",
                          "get_blinded_pni_credential">>]

\* Returns the response itself: the function has no Result type and checks
\* nothing about the request.
issue_receipt_credential(self, randomness, request, receipt_expiration_time, receipt_level) ==
    LET sho == Sho_new(
            "Signal_ZKGroup_20210919_Random_ServerSecretParams_IssueReceiptCredential",
            randomness)
        attrs == [receipt_expiration_time |-> receipt_expiration_time,
                  receipt_level |-> receipt_level]
        blinded_credential_with_secret_nonce ==
            create_blinded_credential("ReceiptCredential",
                                      self.receipt_credentials_key_pair, attrs,
                                      request.public_key, request.ciphertext, sho, 0)
        proof == BlindedIssuanceProof_new("ReceiptCredentialIssuanceProof",
                                          self.receipt_credentials_key_pair,
                                          request.public_key, request.ciphertext,
                                          blinded_credential_with_secret_nonce,
                                          attrs, sho, 1)
    IN  [ret |-> [reserved |-> ReservedDefault,
                  receipt_expiration_time |-> receipt_expiration_time,
                  receipt_level |-> receipt_level,
                  blinded_credential |->
                      get_blinded_credential(blinded_credential_with_secret_nonce),
                  proof |-> proof],
         calls |-> <<"create_blinded_receipt_credential",
                     "ReceiptCredentialIssuanceProof::new",
                     "get_blinded_receipt_credential">>]

\* ---------------------------------------------- verify_*_presentation
\* Faulty variant of verify_auth_credential_presentation: only the V2 variant
\* is checked; any other variant is accepted.
verify_auth_credential_presentation_default_accept(self, group_public_params, presentation) ==
    IF presentation.variant = "V2"
    THEN AsResult(AuthCredentialPresentationProof_verify(
                presentation.presentation.proof, "AuthCredentialPresentationProofV2",
                self.auth_credentials_key_pair,
                group_public_params.uid_enc_public_key,
                presentation.presentation.ciphertext,
                presentation.presentation.redemption_time))
    ELSE Ok(Unit)

\* match presentation { V1(presentation_v1) => .., V2(presentation_v2) => .. }
verify_auth_credential_presentation(self, group_public_params, presentation) ==
    CASE presentation.variant = "V1" ->
        AsResult(AuthCredentialPresentationProof_verify(
                presentation.presentation.proof, "AuthCredentialPresentationProofV1",
                self.auth_credentials_key_pair,
                group_public_params.uid_enc_public_key,
                presentation.presentation.ciphertext,
                presentation.presentation.redemption_time))
      [] presentation.variant = "V2" ->
        AsResult(AuthCredentialPresentationProof_verify(
                presentation.presentation.proof, "AuthCredentialPresentationProofV2",
                self.auth_credentials_key_pair,
                group_public_params.uid_enc_public_key,
                presentation.presentation.ciphertext,
                presentation.presentation.redemption_time))

\* Faulty variant of verify_auth_credential_presentation_v1: the proof is
\* verified against the credentials key named in the proof itself, so a
\* credential of any issuer is accepted.
verify_auth_credential_presentation_v1_any_issuer(self, group_public_params, presentation) ==
        AsResult(AuthCredentialPresentationProof_verify(
                presentation.proof, "AuthCredentialPresentationProofV1",
                [secret |-> presentation.proof.statement[1].public_of],
                group_public_params.uid_enc_public_key,
                presentation.ciphertext,
                presentation.redemption_time))

verify_auth_credential_presentation_v1(self, group_public_params, presentation) ==
        AsResult(AuthCredentialPresentationProof_verify(
                presentation.proof, "AuthCredentialPresentationProofV1",
                self.auth_credentials_key_pair,
                group_public_params.uid_enc_public_key,
                presentation.ciphertext,
                presentation.redemption_time))

\* Faulty variant of verify_auth_credential_presentation_v2: the redemption
\* time handed to the proof check is the one the proof was made for, not the
\* redemption_time field of the presentation.
verify_auth_credential_presentation_v2_time_unbound(self, group_public_params, presentation) ==
        AsResult(AuthCredentialPresentationProof_verify(
                presentation.proof, "AuthCredentialPresentationProofV2",
                self.auth_credentials_key_pair,
                group_public_params.uid_enc_public_key,
                presentation.ciphertext,
                presentation.proof.statement[4]))

verify_auth_credential_presentation_v2(self, group_public_params, presentation) ==
        AsResult(AuthCredentialPresentationProof_verify(
                presentation.proof, "AuthCredentialPresentationProofV2",
                self.auth_credentials_key_pair,
                group_public_params.uid_enc_public_key,
                presentation.ciphertext,
                presentation.redemption_time))

\* match presentation { V1(presentation_v1) => .., V2(presentation_v2) => .. }
verify_profile_key_credential_presentation(self, group_public_params, presentation) ==
    CASE presentation.variant = "V1" ->
        LET credentials_key_pair == self.profile_key_credentials_key_pair
            uid_enc_public_key == group_public_params.uid_enc_public_key
            profile_key_enc_public_key == group_public_params.profile_key_enc_public_key
        IN  AsResult(ProfileKeyCredentialPresentationProof_verify(
                presentation.presentation.proof, "ProfileKeyCredentialPresentationProofV1",
                credentials_key_pair,
                presentation.presentation.uid_enc_ciphertext,
                uid_enc_public_key,
                presentation.presentation.profile_key_enc_ciphertext,
                profile_key_enc_public_key))
      [] presentation.variant = "V2" ->
        LET credentials_key_pair == self.profile_key_credentials_key_pair
            uid_enc_public_key == group_public_params.uid_enc_public_key
            profile_key_enc_public_key == group_public_params.profile_key_enc_public_key
        IN  AsResult(ProfileKeyCredentialPresentationProof_verify(
                presentation.presentation.proof, "ProfileKeyCredentialPresentationProofV2",
                credentials_key_pair,
                presentation.presentation.uid_enc_ciphertext,
                uid_enc_public_key,
                presentation.presentation.profile_key_enc_ciphertext,
                profile_key_enc_public_key))

verify_profile_key_credential_presentation_v1(self, group_public_params, presentation) ==
        LET credentials_key_pair == self.profile_key_credentials_key_pair
            uid_enc_public_key == group_public_params.uid_enc_public_key
            profile_key_enc_public_key == group_public_params.profile_key_enc_public_key
        IN  AsResult(ProfileKeyCredentialPresentationProof_verify(
                presentation.proof, "ProfileKeyCredentialPresentationProofV1",
                credentials_key_pair,
                presentation.uid_enc_ciphertext,
                uid_enc_public_key,
                presentation.profile_key_enc_ciphertext,
                profile_key_enc_public_key))

\* Faulty variant of verify_profile_key_credential_presentation_v2: the proof
\* is checked under the V1 relation.
verify_profile_key_credential_presentation_v2_as_v1(self, group_public_params, presentation) ==
        LET credentials_key_pair == self.profile_key_credentials_key_pair
            uid_enc_public_key == group_public_params.uid_enc_public_key
            profile_key_enc_public_key == group_public_params.profile_key_enc_public_key
        IN  AsResult(ProfileKeyCredentialPresentationProof_verify(
                presentation.proof, "ProfileKeyCredentialPresentationProofV1",
                credentials_key_pair,
                presentation.uid_enc_ciphertext,
                uid_enc_public_key,
                presentation.profile_key_enc_ciphertext,
                profile_key_enc_public_key))

verify_profile_key_credential_presentation_v2(self, group_public_params, presentation) ==
        LET credentials_key_pair == self.profile_key_credentials_key_pair
            uid_enc_public_key == group_public_params.uid_enc_public_key
            profile_key_enc_public_key == group_public_params.profile_key_enc_public_key
        IN  AsResult(ProfileKeyCredentialPresentationProof_verify(
                presentation.proof, "ProfileKeyCredentialPresentationProofV2",
                credentials_key_pair,
                presentation.uid_enc_ciphertext,
                uid_enc_public_key,
                presentation.profile_key_enc_ciphertext,
                profile_key_enc_public_key))

\* Faulty variant of verify_profile_key_credential_v3_presentation: the body
\* of the V2 verification, with the V2 relation and the profile key
\* credentials key pair.
verify_profile_key_credential_v3_presentation_as_v2(self, group_public_params, presentation) ==
        LET credentials_key_pair == self.profile_key_credentials_key_pair
            uid_enc_public_key == group_public_params.uid_enc_public_key
            profile_key_enc_public_key == group_public_params.profile_key_enc_public_key
        IN  AsResult(ProfileKeyCredentialPresentationProof_verify(
                presentation.proof, "ProfileKeyCredentialPresentationProofV2",
                credentials_key_pair,
                presentation.uid_enc_ciphertext,
                uid_enc_public_key,
                presentation.profile_key_enc_ciphertext,
                profile_key_enc_public_key))

verify_profile_key_credential_v3_presentation(self, group_public_params, presentation) ==
        LET credentials_key_pair == self.profile_key_credentials_v3_key_pair
            uid_enc_public_key == group_public_params.uid_enc_public_key
            profile_key_enc_public_key == group_public_params.profile_key_enc_public_key
        IN  AsResult(ProfileKeyCredentialPresentationProof_verify(
                presentation.proof, "ProfileKeyCredentialV3PresentationProof",
                credentials_key_pair,
                presentation.uid_enc_ciphertext,
                uid_enc_public_key,
                presentation.profile_key_enc_ciphertext,
                profile_key_enc_public_key))

\* Faulty variant of verify_pni_credential_presentation: the pni ciphertext
\* handed to the proof check is the one the proof was made for, not the one
\* of the presentation.
verify_pni_credential_presentation_pni_unbound(self, group_public_params, presentation) ==
    LET credentials_key_pair == self.pni_credentials_key_pair
        uid_enc_public_key == group_public_params.uid_enc_public_key
        profile_key_enc_public_key == group_public_params.profile_key_enc_public_key
    IN  AsResult(PniCredentialPresentationProof_verify(
            presentation.presentation.proof,
            IF presentation.variant = "V1"
            THEN "PniCredentialPresentationProofV1"
            ELSE "PniCredentialPresentationProofV2",
            credentials_key_pair,
            presentation.presentation.aci_enc_ciphertext,
            uid_enc_public_key,
            presentation.presentation.profile_key_enc_ciphertext,
            profile_key_enc_public_key,
            presentation.presentation.proof.statement[6]))

\* match presentation { V1(presentation_v1) => .., V2(presentation_v2) => .. }
verify_pni_credential_presentation(self, group_public_params, presentation) ==
    CASE presentation.variant = "V1" ->
        LET credentials_key_pair == self.pni_credentials_key_pair
            uid_enc_public_key == group_public_params.uid_enc_public_key
            profile_key_enc_public_key == group_public_params.profile_key_enc_public_key
        IN  AsResult(PniCredentialPresentationProof_verify(
                presentation.presentation.proof, "PniCredentialPresentationProofV1",
                credentials_key_pair,
                presentation.presentation.aci_enc_ciphertext,
                uid_enc_public_key,
                presentation.presentation.profile_key_enc_ciphertext,
                profile_key_enc_public_key,
                presentation.presentation.pni_enc_ciphertext))
      [] presentation.variant = "V2" ->
        LET credentials_key_pair == self.pni_credentials_key_pair
            uid_enc_public_key == group_public_params.uid_enc_public_key
            profile_key_enc_public_key == group_public_params.profile_key_enc_public_key
        IN  AsResult(PniCredentialPresentationProof_verify(
                presentation.presentation.proof, "PniCredentialPresentationProofV2",
                credentials_key_pair,
                presentation.presentation.aci_enc_ciphertext,
                uid_enc_public_key,
                presentation.presentation.profile_key_enc_ciphertext,
                profile_key_enc_public_key,
                presentation.presentation.pni_enc_ciphertext))

\* Faulty variant of verify_pni_credential_presentation_v1: the profile key
\* credentials key pair is read where the pni one belongs.
verify_pni_credential_presentation_v1_wrong_key_pair(self, group_public_params, presentation) ==
        LET credentials_key_pair == self.profile_key_credentials_key_pair
            uid_enc_public_key == group_public_params.uid_enc_public_key
            profile_key_enc_public_key == group_public_params.profile_key_enc_public_key
        IN  AsResult(PniCredentialPresentationProof_verify(
                presentation.proof, "PniCredentialPresentationProofV1",
                credentials_key_pair,
                presentation.aci_enc_ciphertext,
                uid_enc_public_key,
                presentation.profile_key_enc_ciphertext,
                profile_key_enc_public_key,
                presentation.pni_enc_ciphertext))

verify_pni_credential_presentation_v1(self, group_public_params, presentation) ==
        LET credentials_key_pair == self.pni_credentials_key_pair
            uid_enc_public_key == group_public_params.uid_enc_public_key
            profile_key_enc_public_key == group_public_params.profile_key_enc_public_key
        IN  AsResult(PniCredentialPresentationProof_verify(
                presentation.proof, "PniCredentialPresentationProofV1",
                credentials_key_pair,
                presentation.aci_enc_ciphertext,
                uid_enc_public_key,
                presentation.profile_key_enc_ciphertext,
                profile_key_enc_public_key,
                presentation.pni_enc_ciphertext))

\* Faulty variant of verify_pni_credential_presentation_v2: the proof is
\* verified but the outcome is dropped and Ok(()) returned.
verify_pni_credential_presentation_v2_unchecked(self, group_public_params, presentation) ==
        LET credentials_key_pair == self.pni_credentials_key_pair
            uid_enc_public_key == group_public_params.uid_enc_public_key
            profile_key_enc_public_key == group_public_params.profile_key_enc_public_key
            verified == PniCredentialPresentationProof_verify(
                presentation.proof, "PniCredentialPresentationProofV2",
                credentials_key_pair,
                presentation.aci_enc_ciphertext,
                uid_enc_public_key,
                presentation.profile_key_enc_ciphertext,
                profile_key_enc_public_key,
                presentation.pni_enc_ciphertext)
        IN  Ok(Unit)

verify_pni_credential_presentation_v2(self, group_public_params, presentation) ==
        LET credentials_key_pair == self.pni_credentials_key_pair
            uid_enc_public_key == group_public_params.uid_enc_public_key
            profile_key_enc_public_key == group_public_params.profile_key_enc_public_key
        IN  AsResult(PniCredentialPresentationProof_verify(
                presentation.proof, "PniCredentialPresentationProofV2",
                credentials_key_pair,
                presentation.aci_enc_ciphertext,
                uid_enc_public_key,
                presentation.profile_key_enc_ciphertext,
                profile_key_enc_public_key,
                presentation.pni_enc_ciphertext))

verify_receipt_credential_presentation(self, presentation) ==
    AsResult(ReceiptCredentialPresentationProof_verify(
        presentation.proof,
        self.receipt_credentials_key_pair,
        get_receipt_struct(presentation)))

\* =========================================================================
\* impl ServerPublicParams
\* =========================================================================
\* Faulty variant of verify_signature: the signature is checked against the
\* message it carries instead of the message given.
verify_signature_own_message(self, message, signature) ==
    PublicKey_verify(self.sig_public_key, signature.message, signature)

verify_signature(self, message, signature) ==
    PublicKey_verify(self.sig_public_key, message, signature)

\* Faulty variant of receive_auth_credential: the issuance proof is verified
\* against the uid and redemption time named in the proof, not against the
\* caller's.
receive_auth_credential_unbound(self, uid_bytes, redemption_time, response) ==
    LET uid == UidStruct_new(uid_bytes)
        verified == AuthCredentialIssuanceProof_verify(
                        response.proof,
                        self.auth_credentials_public_key,
                        response.credential,
                        response.proof.statement[3],
                        response.proof.statement[4])
    IN  IF ~verified
        THEN [ret |-> ZkGroupVerificationFailure,
              calls |-> <<"AuthCredentialIssuanceProof::verify">>]
        ELSE [ret |-> Ok([reserved |-> ReservedDefault,
                          credential |-> response.credential,
                          uid |-> uid,
                          redemption_time |-> redemption_time]),
              calls |-> <<"AuthCredentialIssuanceProof::verify">>]

receive_auth_credential(self, uid_bytes, redemption_time, response) ==
    LET uid == UidStruct_new(uid_bytes)
        verified == AuthCredentialIssuanceProof_verify(
                        response.proof,
                        self.auth_credentials_public_key,
                        response.credential,
                        uid,
                        redemption_time)
    IN  IF ~verified
        THEN [ret |-> ZkGroupVerificationFailure,
              calls |-> <<"AuthCredentialIssuanceProof::verify">>]
        ELSE [ret |-> Ok([reserved |-> ReservedDefault,
                          credential |-> response.credential,
                          uid |-> uid,
                          redemption_time |-> redemption_time]),
              calls |-> <<"AuthCredentialIssuanceProof::verify">>]

create_profile_key_credential_request_context(self, randomness, uid_bytes, profile_key) ==
    LET sho == Sho_new(
            "Signal_ZKGroup_20200424_Random_ServerPublicParams_CreateProfileKeyCredentialRequestContext",
            randomness)
        profile_key_struct == ProfileKeyStruct_new(profile_key, uid_bytes)
        commitment_with_secret_nonce ==
            CommitmentWithSecretNonce_new(profile_key_struct, uid_bytes)
        key_pair == KeyPair_generate(sho, 0)
        ciphertext_with_secret_nonce ==
            RequestKeyPair_encrypt(key_pair, profile_key_struct, sho, 1)
        proof == ProfileKeyCredentialRequestProof_new(
                     key_pair, ciphertext_with_secret_nonce,
                     commitment_with_secret_nonce, sho, 2)
    IN  [reserved |-> ReservedDefault,
         uid_bytes |-> uid_bytes,
         profile_key_bytes |-> profile_key_struct.bytes,
         key_pair |-> key_pair,
         ciphertext_with_secret_nonce |-> ciphertext_with_secret_nonce,
         proof |-> proof]

create_profile_key_credential_v3_request_context(self, randomness, uid_bytes, profile_key) ==
    LET sho == Sho_new(
            "Signal_ZKGroup_20220528_Random_ServerPublicParams_CreateProfileKeyCredentialV3RequestContext",
            randomness)
        profile_key_struct == ProfileKeyStruct_new(profile_key, uid_bytes)
        commitment_with_secret_nonce ==
            CommitmentWithSecretNonce_new(profile_key_struct, uid_bytes)
        key_pair == KeyPair_generate(sho, 0)
        ciphertext_with_secret_nonce ==
            RequestKeyPair_encrypt(key_pair, profile_key_struct, sho, 1)
        proof == ProfileKeyCredentialRequestProof_new(
                     key_pair, ciphertext_with_secret_nonce,
                     commitment_with_secret_nonce, sho, 2)
    IN  [reserved |-> ReservedDefault,
         uid_bytes |-> uid_bytes,
         profile_key_bytes |-> profile_key_struct.bytes,
         key_pair |-> key_pair,
         ciphertext_with_secret_nonce |-> ciphertext_with_secret_nonce,
         proof |-> proof]

\* Faulty variant of create_pni_credential_request_context: the profile key
\* request context is built for the pni, not for the aci.
create_pni_credential_request_context_for_pni(self, randomness, aci_bytes, pni_bytes, profile_key) ==
    LET profile_key_request_context ==
            create_profile_key_credential_request_context(self, randomness, pni_bytes,
                                                          profile_key)
    IN  [reserved |-> ReservedDefault,
         aci_bytes |-> aci_bytes,
         pni_bytes |-> pni_bytes,
         profile_key_bytes |-> profile_key_request_context.profile_key_bytes,
         key_pair |-> profile_key_request_context.key_pair,
         ciphertext_with_secret_nonce |->
             profile_key_request_context.ciphertext_with_secret_nonce,
         proof |-> profile_key_request_context.proof]

create_pni_credential_request_context(self, randomness, aci_bytes, pni_bytes, profile_key) ==
    LET profile_key_request_context ==
            create_profile_key_credential_request_context(self, randomness, aci_bytes,
                                                          profile_key)
    IN  [reserved |-> ReservedDefault,
         aci_bytes |-> aci_bytes,
         pni_bytes |-> pni_bytes,
         profile_key_bytes |-> profile_key_request_context.profile_key_bytes,
         key_pair |-> profile_key_request_context.key_pair,
         ciphertext_with_secret_nonce |->
             profile_key_request_context.ciphertext_with_secret_nonce,
         proof |-> profile_key_request_context.proof]

\* Faulty variant of receive_profile_key_credential: the issuance proof is
\* verified against the public key and ciphertext carried in the response's
\* blinded credential, not against the holder's own request context.
receive_profile_key_credential_unbound(self, context, response) ==
    LET verified == BlindedIssuanceProof_verify(
                        response.proof, "ProfileKeyCredentialIssuanceProof",
                        self.profile_key_credentials_public_key,
                        response.blinded_credential.public_key,
                        response.blinded_credential.ciphertext,
                        response.blinded_credential,
                        response.blinded_credential.attrs)
        credential == decrypt_blinded_credential(context.key_pair,
                                                 response.blinded_credential)
    IN  IF ~verified
        THEN [ret |-> ZkGroupVerificationFailure,
              calls |-> <<"ProfileKeyCredentialIssuanceProof::verify">>]
        ELSE [ret |-> Ok([reserved |-> ReservedDefault,
                          credential |-> credential,
                          uid_bytes |-> context.uid_bytes,
                          profile_key_bytes |-> context.profile_key_bytes]),
              calls |-> <<"ProfileKeyCredentialIssuanceProof::verify",
                          "decrypt_blinded_profile_key_credential">>]

receive_profile_key_credential(self, context, response) ==
    LET verified == BlindedIssuanceProof_verify(
                        response.proof, "ProfileKeyCredentialIssuanceProof",
                        self.profile_key_credentials_public_key,
                        get_public_key(context.key_pair),
                        get_ciphertext(context.ciphertext_with_secret_nonce),
                        response.blinded_credential,
                        [uid |-> UidStruct_new(context.uid_bytes)])
        credential == decrypt_blinded_credential(context.key_pair,
                                                 response.blinded_credential)
    IN  IF ~verified
        THEN [ret |-> ZkGroupVerificationFailure,
              calls |-> <<"ProfileKeyCredentialIssuanceProof::verify">>]
        ELSE [ret |-> Ok([reserved |-> ReservedDefault,
                          credential |-> credential,
                          uid_bytes |-> context.uid_bytes,
                          profile_key_bytes |-> context.profile_key_bytes]),
              calls |-> <<"ProfileKeyCredentialIssuanceProof::verify",
                          "decrypt_blinded_profile_key_credential">>]

\* Faulty variant of receive_profile_key_credential_v3: the issuance proof is
\* verified under profile_key_credentials_public_key, not the v3 key.
receive_profile_key_credential_v3_wrong_key(self, context, response) ==
    LET verified == BlindedIssuanceProof_verify(
                        response.proof, "ProfileKeyCredentialV3IssuanceProof",
                        self.profile_key_credentials_public_key,
                        get_public_key(context.key_pair),
                        get_ciphertext(context.ciphertext_with_secret_nonce),
                        response.blinded_credential,
                        [uid |-> UidStruct_new(context.uid_bytes)])
        credential == decrypt_blinded_credential(context.key_pair,
                                                 response.blinded_credential)
    IN  IF ~verified
        THEN [ret |-> ZkGroupVerificationFailure,
              calls |-> <<"ProfileKeyCredentialV3IssuanceProof::verify">>]
        ELSE [ret |-> Ok([reserved |-> ReservedDefault,
                          credential |-> credential,
                          uid_bytes |-> context.uid_bytes,
                          profile_key_bytes |-> context.profile_key_bytes]),
              calls |-> <<"ProfileKeyCredentialV3IssuanceProof::verify",
                          "decrypt_blinded_profile_key_credential_v3">>]

receive_profile_key_credential_v3(self, context, response) ==
    LET verified == BlindedIssuanceProof_verify(
                        response.proof, "ProfileKeyCredentialV3IssuanceProof",
                        self.profile_key_credentials_v3_public_key,
                        get_public_key(context.key_pair),
                        get_ciphertext(context.ciphertext_with_secret_nonce),
                        response.blinded_credential,
                        [uid |-> UidStruct_new(context.uid_bytes)])
        credential == decrypt_blinded_credential(context.key_pair,
                                                 response.blinded_credential)
    IN  IF ~verified
        THEN [ret |-> ZkGroupVerificationFailure,
              calls |-> <<"ProfileKeyCredentialV3IssuanceProof::verify">>]
        ELSE [ret |-> Ok([reserved |-> ReservedDefault,
                          credential |-> credential,
                          uid_bytes |-> context.uid_bytes,
                          profile_key_bytes |-> context.profile_key_bytes]),
              calls |-> <<"ProfileKeyCredentialV3IssuanceProof::verify",
                          "decrypt_blinded_profile_key_credential_v3">>]

\* Faulty variant of receive_pni_credential: the credential is returned
\* whatever the issuance proof's verification says.
receive_pni_credential_lenient(self, context, response) ==
    LET verified == BlindedIssuanceProof_verify(
                        response.proof, "PniCredentialIssuanceProof",
                        self.pni_credentials_public_key,
                        get_public_key(context.key_pair),
                        get_ciphertext(context.ciphertext_with_secret_nonce),
                        response.blinded_credential,
                        [uid |-> UidStruct_new(context.aci_bytes),
                         pni |-> UidStruct_new(context.pni_bytes)])
        credential == decrypt_blinded_credential(context.key_pair,
                                                 response.blinded_credential)
    IN  [ret |-> Ok([reserved |-> ReservedDefault,
                     credential |-> credential,
                     aci_bytes |-> context.aci_bytes,
                     pni_bytes |-> context.pni_bytes,
                     profile_key_bytes |-> context.profile_key_bytes]),
         calls |-> <<"PniCredentialIssuanceProof::verify",
                     "decrypt_blinded_pni_credential">>]

receive_pni_credential(self, context, response) ==
    LET verified == BlindedIssuanceProof_verify(
                        response.proof, "PniCredentialIssuanceProof",
                        self.pni_credentials_public_key,
                        get_public_key(context.key_pair),
                        get_ciphertext(context.ciphertext_with_secret_nonce),
                        response.blinded_credential,
                        [uid |-> UidStruct_new(context.aci_bytes),
                         pni |-> UidStruct_new(context.pni_bytes)])
        credential == decrypt_blinded_credential(context.key_pair,
                                                 response.blinded_credential)
    IN  IF ~verified
        THEN [ret |-> ZkGroupVerificationFailure,
              calls |-> <<"PniCredentialIssuanceProof::verify">>]
        ELSE [ret |-> Ok([reserved |-> ReservedDefault,
                          credential |-> credential,
                          aci_bytes |-> context.aci_bytes,
                          pni_bytes |-> context.pni_bytes,
                          profile_key_bytes |-> context.profile_key_bytes]),
              calls |-> <<"PniCredentialIssuanceProof::verify",
                          "decrypt_blinded_pni_credential">>]

create_receipt_credential_request_context(self, randomness, receipt_serial_bytes) ==
    LET sho == Sho_new(
            "Signal_ZKGroup_20210919_Random_ServerPublicParams_CreateReceiptCredentialRequestContext",
            randomness)
        key_pair == KeyPair_generate(sho, 0)
        ciphertext_with_secret_nonce ==
            RequestKeyPair_encrypt(key_pair,
                                   [receipt_serial_bytes |-> receipt_serial_bytes],
                                   sho, 1)
    IN  [reserved |-> ReservedDefault,
         receipt_serial_bytes |-> receipt_serial_bytes,
         key_pair |-> key_pair,
         ciphertext_with_secret_nonce |-> ciphertext_with_secret_nonce]

\* Faulty variant of receive_receipt_credential: the blinded credential is
\* decrypted before the issuance proof is verified.
receive_receipt_credential_decrypt_first(self, context, response) ==
    LET receipt_struct == ReceiptStruct_new(context.receipt_serial_bytes,
                                            response.receipt_expiration_time,
                                            response.receipt_level)
        credential == decrypt_blinded_credential(context.key_pair,
                                                 response.blinded_credential)
        verified == BlindedIssuanceProof_verify(
                        response.proof, "ReceiptCredentialIssuanceProof",
                        self.receipt_credentials_public_key,
                        get_public_key(context.key_pair),
                        get_ciphertext(context.ciphertext_with_secret_nonce),
                        response.blinded_credential,
                        [receipt_expiration_time |-> receipt_struct.receipt_expiration_time,
                         receipt_level |-> receipt_struct.receipt_level])
    IN  IF ~verified
        THEN [ret |-> ZkGroupVerificationFailure,
              calls |-> <<"decrypt_blinded_receipt_credential",
                          "ReceiptCredentialIssuanceProof::verify">>]
        ELSE [ret |-> Ok([reserved |-> ReservedDefault,
                          credential |-> credential,
                          receipt_expiration_time |-> response.receipt_expiration_time,
                          receipt_level |-> response.receipt_level,
                          receipt_serial_bytes |-> context.receipt_serial_bytes]),
              calls |-> <<"decrypt_blinded_receipt_credential",
                          "ReceiptCredentialIssuanceProof::verify">>]

receive_receipt_credential(self, context, response) ==
    LET receipt_struct == ReceiptStruct_new(context.receipt_serial_bytes,
                                            response.receipt_expiration_time,
                                            response.receipt_level)
        verified == BlindedIssuanceProof_verify(
                        response.proof, "ReceiptCredentialIssuanceProof",
                        self.receipt_credentials_public_key,
                        get_public_key(context.key_pair),
                        get_ciphertext(context.ciphertext_with_secret_nonce),
                        response.blinded_credential,
                        [receipt_expiration_time |-> receipt_struct.receipt_expiration_time,
                         receipt_level |-> receipt_struct.receipt_level])
        credential == decrypt_blinded_credential(context.key_pair,
                                                 response.blinded_credential)
    IN  IF ~verified
        THEN [ret |-> ZkGroupVerificationFailure,
              calls |-> <<"ReceiptCredentialIssuanceProof::verify">>]
        ELSE [ret |-> Ok([reserved |-> ReservedDefault,
                          credential |-> credential,
                          receipt_expiration_time |-> response.receipt_expiration_time,
                          receipt_level |-> response.receipt_level,
                          receipt_serial_bytes |-> context.receipt_serial_bytes]),
              calls |-> <<"ReceiptCredentialIssuanceProof::verify",
                          "decrypt_blinded_receipt_credential">>]

\* -------------------------------------------- create_*_presentation
\* Faulty variant of create_auth_credential_presentation_v1: the V1 struct is
\* stamped with the V2 tag.
create_auth_credential_presentation_v1_v2_tag(self, randomness, group_secret_params, auth_credential) ==
    LET sho == Sho_new(
            "Signal_ZKGroup_20200424_Random_ServerPublicParams_CreateAuthCredentialPresentation",
            randomness)
        uuid_ciphertext == encrypt_uid_struct(group_secret_params, auth_credential.uid)
        proof == AuthCredentialPresentationProof_new(
                     "AuthCredentialPresentationProofV1",
                     self.auth_credentials_public_key,
                     group_secret_params.uid_enc_key_pair,
                     auth_credential.credential,
                     auth_credential.uid,
                     uuid_ciphertext.ciphertext,
                     auth_credential.redemption_time,
                     sho, 0)
    IN  [reserved |-> <<PRESENTATION_VERSION_2>>,
         proof |-> proof,
         ciphertext |-> uuid_ciphertext.ciphertext,
         redemption_time |-> auth_credential.redemption_time]

create_auth_credential_presentation_v1(self, randomness, group_secret_params, auth_credential) ==
    LET sho == Sho_new(
            "Signal_ZKGroup_20200424_Random_ServerPublicParams_CreateAuthCredentialPresentation",
            randomness)
        uuid_ciphertext == encrypt_uid_struct(group_secret_params, auth_credential.uid)
        proof == AuthCredentialPresentationProof_new(
                     "AuthCredentialPresentationProofV1",
                     self.auth_credentials_public_key,
                     group_secret_params.uid_enc_key_pair,
                     auth_credential.credential,
                     auth_credential.uid,
                     uuid_ciphertext.ciphertext,
                     auth_credential.redemption_time,
                     sho, 0)
    IN  [reserved |-> <<PRESENTATION_VERSION_1>>,
         proof |-> proof,
         ciphertext |-> uuid_ciphertext.ciphertext,
         redemption_time |-> auth_credential.redemption_time]

\* Faulty variant of create_auth_credential_presentation_v2: the Sho is seeded
\* without the randomness, so every presentation carries the same proof.
create_auth_credential_presentation_v2_unseeded(self, randomness, group_secret_params, auth_credential) ==
    LET sho == Sho_new(
            "Signal_ZKGroup_20220120_Random_ServerPublicParams_CreateAuthCredentialPresentationV2",
            ReservedDefault)
        uuid_ciphertext == encrypt_uid_struct(group_secret_params, auth_credential.uid)
        proof == AuthCredentialPresentationProof_new(
                     "AuthCredentialPresentationProofV2",
                     self.auth_credentials_public_key,
                     group_secret_params.uid_enc_key_pair,
                     auth_credential.credential,
                     auth_credential.uid,
                     uuid_ciphertext.ciphertext,
                     auth_credential.redemption_time,
                     sho, 0)
    IN  [version |-> <<PRESENTATION_VERSION_2>>,
         proof |-> proof,
         ciphertext |-> uuid_ciphertext.ciphertext,
         redemption_time |-> auth_credential.redemption_time]

create_auth_credential_presentation_v2(self, randomness, group_secret_params, auth_credential) ==
    LET sho == Sho_new(
            "Signal_ZKGroup_20220120_Random_ServerPublicParams_CreateAuthCredentialPresentationV2",
            randomness)
        uuid_ciphertext == encrypt_uid_struct(group_secret_params, auth_credential.uid)
        proof == AuthCredentialPresentationProof_new(
                     "AuthCredentialPresentationProofV2",
                     self.auth_credentials_public_key,
                     group_secret_params.uid_enc_key_pair,
                     auth_credential.credential,
                     auth_credential.uid,
                     uuid_ciphertext.ciphertext,
                     auth_credential.redemption_time,
                     sho, 0)
    IN  [version |-> <<PRESENTATION_VERSION_2>>,
         proof |-> proof,
         ciphertext |-> uuid_ciphertext.ciphertext,
         redemption_time |-> auth_credential.redemption_time]

create_auth_credential_presentation(self, randomness, group_secret_params, auth_credential) ==
    LET presentation_v2 == create_auth_credential_presentation_v2(self, randomness, group_secret_params, auth_credential)
    IN  [variant |-> "V2", presentation |-> presentation_v2]

create_profile_key_credential_presentation_v1(self, randomness, group_secret_params, profile_key_credential) ==
    LET sho == Sho_new(
            "Signal_ZKGroup_20200424_Random_ServerPublicParams_CreateProfileKeyCredentialPresentation",
            randomness)
        uid_enc_key_pair == group_secret_params.uid_enc_key_pair
        profile_key_enc_key_pair == group_secret_params.profile_key_enc_key_pair
        credentials_public_key == self.profile_key_credentials_public_key
        uuid_ciphertext == encrypt_uuid(group_secret_params, profile_key_credential.uid_bytes)
        profile_key_ciphertext ==
            encrypt_profile_key_bytes(group_secret_params,
                                      profile_key_credential.profile_key_bytes,
                                      profile_key_credential.uid_bytes)
        proof == ProfileKeyCredentialPresentationProof_new(
                     "ProfileKeyCredentialPresentationProofV1",
                     uid_enc_key_pair,
                     profile_key_enc_key_pair,
                     credentials_public_key,
                     profile_key_credential.credential,
                     uuid_ciphertext.ciphertext,
                     profile_key_ciphertext.ciphertext,
                     profile_key_credential.uid_bytes,
                     profile_key_credential.profile_key_bytes,
                     sho, 0)
    IN  [reserved |-> <<PRESENTATION_VERSION_1>>,
         proof |-> proof,
         uid_enc_ciphertext |-> uuid_ciphertext.ciphertext,
         profile_key_enc_ciphertext |-> profile_key_ciphertext.ciphertext]

\* Faulty variant of create_profile_key_credential_presentation_v2: the Sho
\* is instantiated with the label of the V1 presentation.
create_profile_key_credential_presentation_v2_v1_label(self, randomness, group_secret_params, profile_key_credential) ==
    LET sho == Sho_new(
            "Signal_ZKGroup_20200424_Random_ServerPublicParams_CreateProfileKeyCredentialPresentation",
            randomness)
        uid_enc_key_pair == group_secret_params.uid_enc_key_pair
        profile_key_enc_key_pair == group_secret_params.profile_key_enc_key_pair
        credentials_public_key == self.profile_key_credentials_public_key
        uuid_ciphertext == encrypt_uuid(group_secret_params, profile_key_credential.uid_bytes)
        profile_key_ciphertext ==
            encrypt_profile_key_bytes(group_secret_params,
                                      profile_key_credential.profile_key_bytes,
                                      profile_key_credential.uid_bytes)
        proof == ProfileKeyCredentialPresentationProof_new(
                     "ProfileKeyCredentialPresentationProofV2",
                     uid_enc_key_pair,
                     profile_key_enc_key_pair,
                     credentials_public_key,
                     profile_key_credential.credential,
                     uuid_ciphertext.ciphertext,
                     profile_key_ciphertext.ciphertext,
                     profile_key_credential.uid_bytes,
                     profile_key_credential.profile_key_bytes,
                     sho, 0)
    IN  [version |-> <<PRESENTATION_VERSION_2>>,
         proof |-> proof,
         uid_enc_ciphertext |-> uuid_ciphertext.ciphertext,
         profile_key_enc_ciphertext |-> profile_key_ciphertext.ciphertext]

create_profile_key_credential_presentation_v2(self, randomness, group_secret_params, profile_key_credential) ==
    LET sho == Sho_new(
            "Signal_ZKGroup_20220120_Random_ServerPublicParams_CreateProfileKeyCredentialPresentationV2",
            randomness)
        uid_enc_key_pair == group_secret_params.uid_enc_key_pair
        profile_key_enc_key_pair == group_secret_params.profile_key_enc_key_pair
        credentials_public_key == self.profile_key_credentials_public_key
        uuid_ciphertext == encrypt_uuid(group_secret_params, profile_key_credential.uid_bytes)
        profile_key_ciphertext ==
            encrypt_profile_key_bytes(group_secret_params,
                                      profile_key_credential.profile_key_bytes,
                                      profile_key_credential.uid_bytes)
        proof == ProfileKeyCredentialPresentationProof_new(
                     "ProfileKeyCredentialPresentationProofV2",
                     uid_enc_key_pair,
                     profile_key_enc_key_pair,
                     credentials_public_key,
                     profile_key_credential.credential,
                     uuid_ciphertext.ciphertext,
                     profile_key_ciphertext.ciphertext,
                     profile_key_credential.uid_bytes,
                     profile_key_credential.profile_key_bytes,
                     sho, 0)
    IN  [version |-> <<PRESENTATION_VERSION_2>>,
         proof |-> proof,
         uid_enc_ciphertext |-> uuid_ciphertext.ciphertext,
         profile_key_enc_ciphertext |-> profile_key_ciphertext.ciphertext]

create_profile_key_credential_presentation(self, randomness, group_secret_params, profile_key_credential) ==
    LET presentation_v2 == create_profile_key_credential_presentation_v2(self, randomness, group_secret_params, profile_key_credential)
    IN  [variant |-> "V2", presentation |-> presentation_v2]

\* Reads self.profile_key_credentials_public_key (server_params.rs:911).
\* Faulty variant of create_profile_key_credential_v3_presentation: the
\* operation checks the proof it made and yields the failure when the proof
\* does not hold.
create_profile_key_credential_v3_presentation_fallible(self, randomness, group_secret_params, profile_key_credential_v3) ==
    LET sho == Sho_new(
            "Signal_ZKGroup_20220508_Random_ServerPublicParams_CreateProfileKeyCredentialV3Presentation",
            randomness)
        uid_enc_key_pair == group_secret_params.uid_enc_key_pair
        profile_key_enc_key_pair == group_secret_params.profile_key_enc_key_pair
        credentials_public_key == self.profile_key_credentials_public_key
        uuid_ciphertext == encrypt_uuid(group_secret_params, profile_key_credential_v3.uid_bytes)
        profile_key_ciphertext ==
            encrypt_profile_key_bytes(group_secret_params,
                                      profile_key_credential_v3.profile_key_bytes,
                                      profile_key_credential_v3.uid_bytes)
        proof == ProfileKeyCredentialPresentationProof_new(
                     "ProfileKeyCredentialV3PresentationProof",
                     uid_enc_key_pair,
                     profile_key_enc_key_pair,
                     credentials_public_key,
                     profile_key_credential_v3.credential,
                     uuid_ciphertext.ciphertext,
                     profile_key_ciphertext.ciphertext,
                     profile_key_credential_v3.uid_bytes,
                     profile_key_credential_v3.profile_key_bytes,
                     sho, 0)
    IN  IF ~proof.sound
        THEN ZkGroupVerificationFailure
        ELSE [version |-> <<PROFILE_KEY_CREDENTIAL_VERSION_3>>,
              proof |-> proof,
              uid_enc_ciphertext |-> uuid_ciphertext.ciphertext,
              profile_key_enc_ciphertext |-> profile_key_ciphertext.ciphertext]

create_profile_key_credential_v3_presentation(self, randomness, group_secret_params, profile_key_credential_v3) ==
    LET sho == Sho_new(
            "Signal_ZKGroup_20220508_Random_ServerPublicParams_CreateProfileKeyCredentialV3Presentation",
            randomness)
        uid_enc_key_pair == group_secret_params.uid_enc_key_pair
        profile_key_enc_key_pair == group_secret_params.profile_key_enc_key_pair
        credentials_public_key == self.profile_key_credentials_public_key
        uuid_ciphertext == encrypt_uuid(group_secret_params, profile_key_credential_v3.uid_bytes)
        profile_key_ciphertext ==
            encrypt_profile_key_bytes(group_secret_params,
                                      profile_key_credential_v3.profile_key_bytes,
                                      profile_key_credential_v3.uid_bytes)
        proof == ProfileKeyCredentialPresentationProof_new(
                     "ProfileKeyCredentialV3PresentationProof",
                     uid_enc_key_pair,
                     profile_key_enc_key_pair,
                     credentials_public_key,
                     profile_key_credential_v3.credential,
                     uuid_ciphertext.ciphertext,
                     profile_key_ciphertext.ciphertext,
                     profile_key_credential_v3.uid_bytes,
                     profile_key_credential_v3.profile_key_bytes,
                     sho, 0)
    IN  [version |-> <<PROFILE_KEY_CREDENTIAL_VERSION_3>>,
         proof |-> proof,
         uid_enc_ciphertext |-> uuid_ciphertext.ciphertext,
         profile_key_enc_ciphertext |-> profile_key_ciphertext.ciphertext]

create_pni_credential_presentation_v1(self, randomness, group_secret_params, pni_credential) ==
    LET sho == Sho_new(
            "Signal_ZKGroup_20211111_Random_ServerPublicParams_CreatePniCredentialPresentation",
            randomness)
        uid_enc_key_pair == group_secret_params.uid_enc_key_pair
        profile_key_enc_key_pair == group_secret_params.profile_key_enc_key_pair
        credentials_public_key == self.pni_credentials_public_key
        aci_ciphertext == encrypt_uuid(group_secret_params, pni_credential.aci_bytes)
        pni_ciphertext == encrypt_uuid(group_secret_params, pni_credential.pni_bytes)
        profile_key_ciphertext ==
            encrypt_profile_key_bytes(group_secret_params,
                                      pni_credential.profile_key_bytes,
                                      pni_credential.aci_bytes)
        proof == PniCredentialPresentationProof_new(
                     "PniCredentialPresentationProofV1",
                     uid_enc_key_pair,
                     profile_key_enc_key_pair,
                     credentials_public_key,
                     pni_credential.credential,
                     aci_ciphertext.ciphertext,
                     pni_ciphertext.ciphertext,
                     profile_key_ciphertext.ciphertext,
                     pni_credential.aci_bytes,
                     pni_credential.pni_bytes,
                     pni_credential.profile_key_bytes,
                     sho, 0)
    IN  [reserved |-> <<PRESENTATION_VERSION_1>>,
         proof |-> proof,
         aci_enc_ciphertext |-> aci_ciphertext.ciphertext,
         pni_enc_ciphertext |-> pni_ciphertext.ciphertext,
         profile_key_enc_ciphertext |-> profile_key_ciphertext.ciphertext]

\* Faulty variant of create_pni_credential_presentation_v2: the profile key
\* is encrypted for the pni, not for the aci.
create_pni_credential_presentation_v2_for_pni(self, randomness, group_secret_params, pni_credential) ==
    LET sho == Sho_new(
            "Signal_ZKGroup_20220120_Random_ServerPublicParams_CreatePniCredentialPresentationV2",
            randomness)
        uid_enc_key_pair == group_secret_params.uid_enc_key_pair
        profile_key_enc_key_pair == group_secret_params.profile_key_enc_key_pair
        credentials_public_key == self.pni_credentials_public_key
        aci_ciphertext == encrypt_uuid(group_secret_params, pni_credential.aci_bytes)
        pni_ciphertext == encrypt_uuid(group_secret_params, pni_credential.pni_bytes)
        profile_key_ciphertext ==
            encrypt_profile_key_bytes(group_secret_params,
                                      pni_credential.profile_key_bytes,
                                      pni_credential.pni_bytes)
        proof == PniCredentialPresentationProof_new(
                     "PniCredentialPresentationProofV2",
                     uid_enc_key_pair,
                     profile_key_enc_key_pair,
                     credentials_public_key,
                     pni_credential.credential,
                     aci_ciphertext.ciphertext,
                     pni_ciphertext.ciphertext,
                     profile_key_ciphertext.ciphertext,
                     pni_credential.aci_bytes,
                     pni_credential.pni_bytes,
                     pni_credential.profile_key_bytes,
                     sho, 0)
    IN  [version |-> <<PRESENTATION_VERSION_2>>,
         proof |-> proof,
         aci_enc_ciphertext |-> aci_ciphertext.ciphertext,
         pni_enc_ciphertext |-> pni_ciphertext.ciphertext,
         profile_key_enc_ciphertext |-> profile_key_ciphertext.ciphertext]

create_pni_credential_presentation_v2(self, randomness, group_secret_params, pni_credential) ==
    LET sho == Sho_new(
            "Signal_ZKGroup_20220120_Random_ServerPublicParams_CreatePniCredentialPresentationV2",
            randomness)
        uid_enc_key_pair == group_secret_params.uid_enc_key_pair
        profile_key_enc_key_pair == group_secret_params.profile_key_enc_key_pair
        credentials_public_key == self.pni_credentials_public_key
        aci_ciphertext == encrypt_uuid(group_secret_params, pni_credential.aci_bytes)
        pni_ciphertext == encrypt_uuid(group_secret_params, pni_credential.pni_bytes)
        profile_key_ciphertext ==
            encrypt_profile_key_bytes(group_secret_params,
                                      pni_credential.profile_key_bytes,
                                      pni_credential.aci_bytes)
        proof == PniCredentialPresentationProof_new(
                     "PniCredentialPresentationProofV2",
                     uid_enc_key_pair,
                     profile_key_enc_key_pair,
                     credentials_public_key,
                     pni_credential.credential,
                     aci_ciphertext.ciphertext,
                     pni_ciphertext.ciphertext,
                     profile_key_ciphertext.ciphertext,
                     pni_credential.aci_bytes,
                     pni_credential.pni_bytes,
                     pni_credential.profile_key_bytes,
                     sho, 0)
    IN  [version |-> <<PRESENTATION_VERSION_2>>,
         proof |-> proof,
         aci_enc_ciphertext |-> aci_ciphertext.ciphertext,
         pni_enc_ciphertext |-> pni_ciphertext.ciphertext,
         profile_key_enc_ciphertext |-> profile_key_ciphertext.ciphertext]

\* Faulty variant of create_pni_credential_presentation: the V1 presentation
\* is created and returned in the V1 variant.
create_pni_credential_presentation_v1_default(self, randomness, group_secret_params, pni_credential) ==
    LET presentation_v1 == create_pni_credential_presentation_v1(self, randomness, group_secret_params, pni_credential)
    IN  [variant |-> "V1", presentation |-> presentation_v1]

create_pni_credential_presentation(self, randomness, group_secret_params, pni_credential) ==
    LET presentation_v2 == create_pni_credential_presentation_v2(self, randomness, group_secret_params, pni_credential)
    IN  [variant |-> "V2", presentation |-> presentation_v2]

\* Faulty variant of create_receipt_credential_presentation: the expiration
\* time and the level change places.
create_receipt_credential_presentation_swapped(self, randomness, receipt_credential) ==
    LET sho == Sho_new(
            "Signal_ZKGroup_20210919_Random_ServerPublicParams_CreateReceiptCredentialPresentation",
            randomness)
        proof == ReceiptCredentialPresentationProof_new(
                     self.receipt_credentials_public_key,
                     receipt_credential.credential,
                     sho, 0)
    IN  [reserved |-> <<ReservedDefault>>,
         proof |-> proof,
         receipt_expiration_time |-> receipt_credential.receipt_level,
         receipt_level |-> receipt_credential.receipt_expiration_time,
         receipt_serial_bytes |-> receipt_credential.receipt_serial_bytes]

create_receipt_credential_presentation(self, randomness, receipt_credential) ==
    LET sho == Sho_new(
            "Signal_ZKGroup_20210919_Random_ServerPublicParams_CreateReceiptCredentialPresentation",
            randomness)
        proof == ReceiptCredentialPresentationProof_new(
                     self.receipt_credentials_public_key,
                     receipt_credential.credential,
                     sho, 0)
    IN  [reserved |-> <<ReservedDefault>>,
         proof |-> proof,
         receipt_expiration_time |-> receipt_credential.receipt_expiration_time,
         receipt_level |-> receipt_credential.receipt_level,
         receipt_serial_bytes |-> receipt_credential.receipt_serial_bytes]

\* =========================================================================
\* State machine: one issuance attempt from key generation to verification.
\* Every operation is a pure function of its arguments; the state records
\* each call made so far (function, arguments, return value, collaborator
\* calls).  The callers are free in every argument the API leaves to them.
\* =========================================================================
VARIABLES
    ssp,            \* the issuer's ServerSecretParams
    spp,            \* the ServerPublicParams distributed to holders
    context_call,   \* the holder's create_*_request_context call
    issue_call,     \* the issuer's issue_*_credential call
    receive_call,   \* the holder's receive_*_credential call
    present_call,   \* the holder's create_*_presentation call
    verify_call,    \* the verifier's verify_*_presentation call
    sign_call,      \* a concurrent caller's sign call
    verify_signature_call   \* a concurrent caller's verify_signature call

vars == <<ssp, spp, context_call, issue_call, receive_call, present_call, verify_call, sign_call, verify_signature_call>>

NoParams == [none |-> TRUE]
NoCall == [fn |-> "none"]

\* The inputs callers can supply.
\* Two servers and two groups: the claims relate at most two of each.  The
\* issuer is generated from IssuerSeeds; a verifier is any server of
\* ServerSeeds (the issuer or the other one).
IssuerSeeds == {1}
ServerSeeds == {1, 2}
GroupSeeds == {1, 2}
Commitments == {ProfileKey_get_commitment(p, u) : p \in ProfileKeys, u \in UidBytes}
\* A GroupPublicParams value is any pair of group public keys.
GroupPublicParamsValues ==
    {[reserved |-> ReservedDefault,
      uid_enc_public_key |->
          GroupSecretParams_get_public_params(GroupSecretParams_generate(g1)).uid_enc_public_key,
      profile_key_enc_public_key |->
          GroupSecretParams_get_public_params(GroupSecretParams_generate(g2)).profile_key_enc_public_key]
     : g1 \in GroupSeeds, g2 \in GroupSeeds}

Init ==
    /\ ssp = NoParams
    /\ spp = NoParams
    /\ context_call = NoCall
    /\ issue_call = NoCall
    /\ receive_call = NoCall
    /\ present_call = NoCall
    /\ verify_call = NoCall
    /\ sign_call = NoCall
    /\ verify_signature_call = NoCall

Generate(randomness) ==
    /\ ssp = NoParams
    /\ ssp' = generate(randomness)
    /\ UNCHANGED <<spp, context_call, issue_call, receive_call, present_call, verify_call, sign_call, verify_signature_call>>

GetPublicParams ==
    /\ ssp # NoParams
    /\ spp = NoParams
    /\ spp' = get_public_params(ssp)
    /\ UNCHANGED <<ssp, context_call, issue_call, receive_call, present_call, verify_call, sign_call, verify_signature_call>>

\* No call of the attempt has been made yet.
Fresh ==
    /\ spp # NoParams
    /\ context_call = NoCall
    /\ issue_call = NoCall

\* ---------------------------------------------------------- request context
CreateProfileKeyCredentialRequestContext(randomness, uid_bytes, profile_key) ==
    /\ Fresh
    /\ context_call' =
           [fn |-> "create_profile_key_credential_request_context",
            args |-> [randomness |-> randomness, uid_bytes |-> uid_bytes,
                      profile_key |-> profile_key],
            ret |-> create_profile_key_credential_request_context(
                        spp, randomness, uid_bytes, profile_key)]
    /\ UNCHANGED <<ssp, spp, issue_call, receive_call, present_call, verify_call, sign_call, verify_signature_call>>

CreateProfileKeyCredentialV3RequestContext(randomness, uid_bytes, profile_key) ==
    /\ Fresh
    /\ context_call' =
           [fn |-> "create_profile_key_credential_v3_request_context",
            args |-> [randomness |-> randomness, uid_bytes |-> uid_bytes,
                      profile_key |-> profile_key],
            ret |-> create_profile_key_credential_v3_request_context(
                        spp, randomness, uid_bytes, profile_key)]
    /\ UNCHANGED <<ssp, spp, issue_call, receive_call, present_call, verify_call, sign_call, verify_signature_call>>

CreatePniCredentialRequestContext(randomness, aci_bytes, pni_bytes, profile_key) ==
    /\ Fresh
    /\ context_call' =
           [fn |-> "create_pni_credential_request_context",
            args |-> [randomness |-> randomness, aci_bytes |-> aci_bytes,
                      pni_bytes |-> pni_bytes, profile_key |-> profile_key],
            ret |-> create_pni_credential_request_context(
                        spp, randomness, aci_bytes, pni_bytes, profile_key)]
    /\ UNCHANGED <<ssp, spp, issue_call, receive_call, present_call, verify_call, sign_call, verify_signature_call>>

CreateReceiptCredentialRequestContext(randomness, receipt_serial_bytes) ==
    /\ Fresh
    /\ context_call' =
           [fn |-> "create_receipt_credential_request_context",
            args |-> [randomness |-> randomness,
                      receipt_serial_bytes |-> receipt_serial_bytes],
            ret |-> create_receipt_credential_request_context(
                        spp, randomness, receipt_serial_bytes)]
    /\ UNCHANGED <<ssp, spp, issue_call, receive_call, present_call, verify_call, sign_call, verify_signature_call>>

\* -------------------------------------------------------------------- issue
\* Faulty variant of the call of issue_auth_credential: the credential is
\* made with randomness the operation collects itself, not with its
\* randomness argument.
IssueAuthCredential_own_entropy(randomness, uid_bytes, redemption_time) ==
    /\ Fresh
    /\ \E entropy \in Randomness :
       LET out == issue_auth_credential(ssp, entropy, uid_bytes, redemption_time)
       IN  issue_call' =
               [fn |-> "issue_auth_credential",
                args |-> [randomness |-> randomness, uid_bytes |-> uid_bytes,
                          redemption_time |-> redemption_time],
                ret |-> out.ret, calls |-> out.calls]
    /\ UNCHANGED <<ssp, spp, context_call, receive_call, present_call, verify_call, sign_call, verify_signature_call>>

IssueAuthCredential(randomness, uid_bytes, redemption_time) ==
    /\ Fresh
    /\ LET out == issue_auth_credential(ssp, randomness, uid_bytes, redemption_time)
       IN  issue_call' =
               [fn |-> "issue_auth_credential",
                args |-> [randomness |-> randomness, uid_bytes |-> uid_bytes,
                          redemption_time |-> redemption_time],
                ret |-> out.ret, calls |-> out.calls]
    /\ UNCHANGED <<ssp, spp, context_call, receive_call, present_call, verify_call, sign_call, verify_signature_call>>

IssueProfileKeyCredential(randomness, uid_bytes, commitment) ==
    /\ context_call.fn = "create_profile_key_credential_request_context"
    /\ issue_call = NoCall
    /\ LET request == ProfileKeyCredentialRequestContext_get_request(context_call.ret)
           out == issue_profile_key_credential(ssp, randomness, request, uid_bytes,
                                               commitment)
       IN  issue_call' =
               [fn |-> "issue_profile_key_credential",
                args |-> [randomness |-> randomness,
                          uid_bytes |-> uid_bytes, commitment |-> commitment],
                ret |-> out.ret, calls |-> out.calls]
    /\ UNCHANGED <<ssp, spp, context_call, receive_call, present_call, verify_call, sign_call, verify_signature_call>>

IssueProfileKeyCredentialV3(randomness, uid_bytes, commitment) ==
    /\ context_call.fn = "create_profile_key_credential_v3_request_context"
    /\ issue_call = NoCall
    /\ LET request == ProfileKeyCredentialRequestContext_get_request(context_call.ret)
           out == issue_profile_key_credential_v3(ssp, randomness, request, uid_bytes,
                                                  commitment)
       IN  issue_call' =
               [fn |-> "issue_profile_key_credential_v3",
                args |-> [randomness |-> randomness,
                          uid_bytes |-> uid_bytes, commitment |-> commitment],
                ret |-> out.ret, calls |-> out.calls]
    /\ UNCHANGED <<ssp, spp, context_call, receive_call, present_call, verify_call, sign_call, verify_signature_call>>

IssuePniCredential(randomness, uid_bytes, pni_bytes, commitment) ==
    /\ context_call.fn = "create_pni_credential_request_context"
    /\ issue_call = NoCall
    /\ LET request == ProfileKeyCredentialRequestContext_get_request(context_call.ret)
           out == issue_pni_credential(ssp, randomness, request, uid_bytes, pni_bytes,
                                       commitment)
       IN  issue_call' =
               [fn |-> "issue_pni_credential",
                args |-> [randomness |-> randomness,
                          uid_bytes |-> uid_bytes, pni_bytes |-> pni_bytes,
                          commitment |-> commitment],
                ret |-> out.ret, calls |-> out.calls]
    /\ UNCHANGED <<ssp, spp, context_call, receive_call, present_call, verify_call, sign_call, verify_signature_call>>

IssueReceiptCredential(randomness, receipt_expiration_time, receipt_level) ==
    /\ context_call.fn = "create_receipt_credential_request_context"
    /\ issue_call = NoCall
    /\ LET request == ReceiptCredentialRequestContext_get_request(context_call.ret)
           out == issue_receipt_credential(ssp, randomness, request,
                                           receipt_expiration_time, receipt_level)
       IN  issue_call' =
               [fn |-> "issue_receipt_credential",
                args |-> [randomness |-> randomness,
                          receipt_expiration_time |-> receipt_expiration_time,
                          receipt_level |-> receipt_level],
                ret |-> out.ret, calls |-> out.calls]
    /\ UNCHANGED <<ssp, spp, context_call, receive_call, present_call, verify_call, sign_call, verify_signature_call>>

\* ------------------------------------------------------------------ receive
\* The contexts a holder can pass to receive_*: the context of this attempt,
\* or a context returned by create_*_request_context for arguments that
\* differ from this attempt's in one place (other randomness, other uid,
\* other pni, other profile key, other serial).
Differences(x, y) == Cardinality({i \in DOMAIN x : x[i] # y[i]})

ProfileKeyCredentialRequestContexts ==
    LET a == context_call.args
    IN  {create_profile_key_credential_request_context(spp, t[1], t[2], t[3])
         : t \in {t \in Randomness \X UidBytes \X ProfileKeys :
                    Differences(<<a.randomness, a.uid_bytes, a.profile_key>>, t) <= 1}}

ProfileKeyCredentialV3RequestContexts ==
    LET a == context_call.args
    IN  {create_profile_key_credential_v3_request_context(spp, t[1], t[2], t[3])
         : t \in {t \in Randomness \X UidBytes \X ProfileKeys :
                    Differences(<<a.randomness, a.uid_bytes, a.profile_key>>, t) <= 1}}

PniCredentialRequestContexts ==
    LET a == context_call.args
    IN  {create_pni_credential_request_context(spp, t[1], t[2], t[3], t[4])
         : t \in {t \in Randomness \X UidBytes \X UidBytes \X ProfileKeys :
                    Differences(<<a.randomness, a.aci_bytes, a.pni_bytes,
                                  a.profile_key>>, t) <= 1}}

ReceiptCredentialRequestContexts ==
    LET a == context_call.args
    IN  {create_receipt_credential_request_context(spp, t[1], t[2])
         : t \in {t \in Randomness \X ReceiptSerials :
                    Differences(<<a.randomness, a.receipt_serial_bytes>>, t) <= 1}}

ReceiveAuthCredential(uid_bytes, redemption_time) ==
    /\ issue_call.fn = "issue_auth_credential"
    /\ receive_call = NoCall
    /\ LET response == issue_call.ret
           out == receive_auth_credential(spp, uid_bytes, redemption_time, response)
       IN  receive_call' =
               [fn |-> "receive_auth_credential",
                args |-> [uid_bytes |-> uid_bytes, redemption_time |-> redemption_time],
                ret |-> out.ret, calls |-> out.calls]
    /\ UNCHANGED <<ssp, spp, context_call, issue_call, present_call, verify_call, sign_call, verify_signature_call>>

ReceiveProfileKeyCredential ==
    /\ issue_call.fn = "issue_profile_key_credential"
    /\ issue_call.ret.ok
    /\ receive_call = NoCall
    /\ \E context \in ProfileKeyCredentialRequestContexts :
       LET response == issue_call.ret.value
           out == receive_profile_key_credential(spp, context, response)
       IN  receive_call' =
               [fn |-> "receive_profile_key_credential",
                args |-> [context |-> context],
                ret |-> out.ret, calls |-> out.calls]
    /\ UNCHANGED <<ssp, spp, context_call, issue_call, present_call, verify_call, sign_call, verify_signature_call>>

ReceiveProfileKeyCredentialV3 ==
    /\ issue_call.fn = "issue_profile_key_credential_v3"
    /\ issue_call.ret.ok
    /\ receive_call = NoCall
    /\ \E context \in ProfileKeyCredentialV3RequestContexts :
       LET response == issue_call.ret.value
           out == receive_profile_key_credential_v3(spp, context, response)
       IN  receive_call' =
               [fn |-> "receive_profile_key_credential_v3",
                args |-> [context |-> context],
                ret |-> out.ret, calls |-> out.calls]
    /\ UNCHANGED <<ssp, spp, context_call, issue_call, present_call, verify_call, sign_call, verify_signature_call>>

ReceivePniCredential ==
    /\ issue_call.fn = "issue_pni_credential"
    /\ issue_call.ret.ok
    /\ receive_call = NoCall
    /\ \E context \in PniCredentialRequestContexts :
       LET response == issue_call.ret.value
           out == receive_pni_credential(spp, context, response)
       IN  receive_call' =
               [fn |-> "receive_pni_credential",
                args |-> [context |-> context],
                ret |-> out.ret, calls |-> out.calls]
    /\ UNCHANGED <<ssp, spp, context_call, issue_call, present_call, verify_call, sign_call, verify_signature_call>>

ReceiveReceiptCredential ==
    /\ issue_call.fn = "issue_receipt_credential"
    /\ receive_call = NoCall
    /\ \E context \in ReceiptCredentialRequestContexts :
       LET response == issue_call.ret
           out == receive_receipt_credential(spp, context, response)
       IN  receive_call' =
               [fn |-> "receive_receipt_credential",
                args |-> [context |-> context],
                ret |-> out.ret, calls |-> out.calls]
    /\ UNCHANGED <<ssp, spp, context_call, issue_call, present_call, verify_call, sign_call, verify_signature_call>>

\* ------------------------------------------------------------------ present
CreateAuthCredentialPresentation(randomness, group_seed) ==
    /\ receive_call.fn = "receive_auth_credential"
    /\ receive_call.ret.ok
    /\ present_call = NoCall
    /\ LET group_secret_params == GroupSecretParams_generate(group_seed)
       IN  present_call' =
               [fn |-> "create_auth_credential_presentation",
                args |-> [randomness |-> randomness, group_seed |-> group_seed],
                ret |-> create_auth_credential_presentation(spp, randomness, group_secret_params,
                             receive_call.ret.value)]
    /\ UNCHANGED <<ssp, spp, context_call, issue_call, receive_call, verify_call, sign_call, verify_signature_call>>

CreateAuthCredentialPresentationV1(randomness, group_seed) ==
    /\ receive_call.fn = "receive_auth_credential"
    /\ receive_call.ret.ok
    /\ present_call = NoCall
    /\ LET group_secret_params == GroupSecretParams_generate(group_seed)
       IN  present_call' =
               [fn |-> "create_auth_credential_presentation_v1",
                args |-> [randomness |-> randomness, group_seed |-> group_seed],
                ret |-> create_auth_credential_presentation_v1(spp, randomness, group_secret_params,
                             receive_call.ret.value)]
    /\ UNCHANGED <<ssp, spp, context_call, issue_call, receive_call, verify_call, sign_call, verify_signature_call>>

CreateAuthCredentialPresentationV2(randomness, group_seed) ==
    /\ receive_call.fn = "receive_auth_credential"
    /\ receive_call.ret.ok
    /\ present_call = NoCall
    /\ LET group_secret_params == GroupSecretParams_generate(group_seed)
       IN  present_call' =
               [fn |-> "create_auth_credential_presentation_v2",
                args |-> [randomness |-> randomness, group_seed |-> group_seed],
                ret |-> create_auth_credential_presentation_v2(spp, randomness, group_secret_params,
                             receive_call.ret.value)]
    /\ UNCHANGED <<ssp, spp, context_call, issue_call, receive_call, verify_call, sign_call, verify_signature_call>>

CreateProfileKeyCredentialPresentation(randomness, group_seed) ==
    /\ receive_call.fn = "receive_profile_key_credential"
    /\ receive_call.ret.ok
    /\ present_call = NoCall
    /\ LET group_secret_params == GroupSecretParams_generate(group_seed)
       IN  present_call' =
               [fn |-> "create_profile_key_credential_presentation",
                args |-> [randomness |-> randomness, group_seed |-> group_seed],
                ret |-> create_profile_key_credential_presentation(spp, randomness, group_secret_params,
                             receive_call.ret.value)]
    /\ UNCHANGED <<ssp, spp, context_call, issue_call, receive_call, verify_call, sign_call, verify_signature_call>>

CreateProfileKeyCredentialPresentationV1(randomness, group_seed) ==
    /\ receive_call.fn = "receive_profile_key_credential"
    /\ receive_call.ret.ok
    /\ present_call = NoCall
    /\ LET group_secret_params == GroupSecretParams_generate(group_seed)
       IN  present_call' =
               [fn |-> "create_profile_key_credential_presentation_v1",
                args |-> [randomness |-> randomness, group_seed |-> group_seed],
                ret |-> create_profile_key_credential_presentation_v1(spp, randomness, group_secret_params,
                             receive_call.ret.value)]
    /\ UNCHANGED <<ssp, spp, context_call, issue_call, receive_call, verify_call, sign_call, verify_signature_call>>

CreateProfileKeyCredentialPresentationV2(randomness, group_seed) ==
    /\ receive_call.fn = "receive_profile_key_credential"
    /\ receive_call.ret.ok
    /\ present_call = NoCall
    /\ LET group_secret_params == GroupSecretParams_generate(group_seed)
       IN  present_call' =
               [fn |-> "create_profile_key_credential_presentation_v2",
                args |-> [randomness |-> randomness, group_seed |-> group_seed],
                ret |-> create_profile_key_credential_presentation_v2(spp, randomness, group_secret_params,
                             receive_call.ret.value)]
    /\ UNCHANGED <<ssp, spp, context_call, issue_call, receive_call, verify_call, sign_call, verify_signature_call>>

CreatePniCredentialPresentation(randomness, group_seed) ==
    /\ receive_call.fn = "receive_pni_credential"
    /\ receive_call.ret.ok
    /\ present_call = NoCall
    /\ LET group_secret_params == GroupSecretParams_generate(group_seed)
       IN  present_call' =
               [fn |-> "create_pni_credential_presentation",
                args |-> [randomness |-> randomness, group_seed |-> group_seed],
                ret |-> create_pni_credential_presentation(spp, randomness, group_secret_params,
                             receive_call.ret.value)]
    /\ UNCHANGED <<ssp, spp, context_call, issue_call, receive_call, verify_call, sign_call, verify_signature_call>>

CreatePniCredentialPresentationV1(randomness, group_seed) ==
    /\ receive_call.fn = "receive_pni_credential"
    /\ receive_call.ret.ok
    /\ present_call = NoCall
    /\ LET group_secret_params == GroupSecretParams_generate(group_seed)
       IN  present_call' =
               [fn |-> "create_pni_credential_presentation_v1",
                args |-> [randomness |-> randomness, group_seed |-> group_seed],
                ret |-> create_pni_credential_presentation_v1(spp, randomness, group_secret_params,
                             receive_call.ret.value)]
    /\ UNCHANGED <<ssp, spp, context_call, issue_call, receive_call, verify_call, sign_call, verify_signature_call>>

CreatePniCredentialPresentationV2(randomness, group_seed) ==
    /\ receive_call.fn = "receive_pni_credential"
    /\ receive_call.ret.ok
    /\ present_call = NoCall
    /\ LET group_secret_params == GroupSecretParams_generate(group_seed)
       IN  present_call' =
               [fn |-> "create_pni_credential_presentation_v2",
                args |-> [randomness |-> randomness, group_seed |-> group_seed],
                ret |-> create_pni_credential_presentation_v2(spp, randomness, group_secret_params,
                             receive_call.ret.value)]
    /\ UNCHANGED <<ssp, spp, context_call, issue_call, receive_call, verify_call, sign_call, verify_signature_call>>

CreateProfileKeyCredentialV3Presentation(randomness, group_seed) ==
    /\ receive_call.fn = "receive_profile_key_credential_v3"
    /\ receive_call.ret.ok
    /\ present_call = NoCall
    /\ LET group_secret_params == GroupSecretParams_generate(group_seed)
       IN  present_call' =
               [fn |-> "create_profile_key_credential_v3_presentation",
                args |-> [randomness |-> randomness, group_seed |-> group_seed],
                ret |-> create_profile_key_credential_v3_presentation(spp, randomness, group_secret_params,
                             receive_call.ret.value)]
    /\ UNCHANGED <<ssp, spp, context_call, issue_call, receive_call, verify_call, sign_call, verify_signature_call>>

CreateReceiptCredentialPresentation(randomness) ==
    /\ receive_call.fn = "receive_receipt_credential"
    /\ receive_call.ret.ok
    /\ present_call = NoCall
    /\ present_call' =
           [fn |-> "create_receipt_credential_presentation",
            args |-> [randomness |-> randomness],
            ret |-> create_receipt_credential_presentation(spp, randomness,
                                                           receive_call.ret.value)]
    /\ UNCHANGED <<ssp, spp, context_call, issue_call, receive_call, verify_call, sign_call, verify_signature_call>>

\* ------------------------------------------------------------------- verify
\* The presentation handed to a verify_* call: the dispatching entry point
\* takes an Any*Presentation (a versioned struct is wrapped in the variant of
\* its type), a _v1 / _v2 entry point takes the struct of its version.
IsWrapped(call) ==
    call.fn \in {"create_auth_credential_presentation",
                 "create_profile_key_credential_presentation",
                 "create_pni_credential_presentation"}

IsV1(call) ==
    call.fn \in {"create_auth_credential_presentation_v1",
                 "create_profile_key_credential_presentation_v1",
                 "create_pni_credential_presentation_v1"}

AsAny(call) ==
    IF IsWrapped(call) THEN call.ret
    ELSE [variant |-> IF IsV1(call) THEN "V1" ELSE "V2", presentation |-> call.ret]

AsVersioned(call) == call.ret

VerifyAuthCredentialPresentation(server_seed, group_public_params) ==
    /\ present_call.fn \in {"create_auth_credential_presentation", "create_auth_credential_presentation_v1", "create_auth_credential_presentation_v2"}
    /\ verify_call = NoCall
    /\ LET verifier == generate(server_seed)
           presentation == AsAny(present_call)
       IN  verify_call' =
               [fn |-> "verify_auth_credential_presentation",
                args |-> [server_seed |-> server_seed,
                          group_public_params |-> group_public_params],
                ret |-> verify_auth_credential_presentation(verifier, group_public_params, presentation)]
    /\ UNCHANGED <<ssp, spp, context_call, issue_call, receive_call, present_call, sign_call, verify_signature_call>>

VerifyAuthCredentialPresentationV1(server_seed, group_public_params) ==
    /\ present_call.fn \in {"create_auth_credential_presentation_v1"}
    /\ verify_call = NoCall
    /\ LET verifier == generate(server_seed)
           presentation == AsVersioned(present_call)
       IN  verify_call' =
               [fn |-> "verify_auth_credential_presentation_v1",
                args |-> [server_seed |-> server_seed,
                          group_public_params |-> group_public_params],
                ret |-> verify_auth_credential_presentation_v1(verifier, group_public_params, presentation)]
    /\ UNCHANGED <<ssp, spp, context_call, issue_call, receive_call, present_call, sign_call, verify_signature_call>>

VerifyAuthCredentialPresentationV2(server_seed, group_public_params) ==
    /\ present_call.fn \in {"create_auth_credential_presentation_v2"}
    /\ verify_call = NoCall
    /\ LET verifier == generate(server_seed)
           presentation == AsVersioned(present_call)
       IN  verify_call' =
               [fn |-> "verify_auth_credential_presentation_v2",
                args |-> [server_seed |-> server_seed,
                          group_public_params |-> group_public_params],
                ret |-> verify_auth_credential_presentation_v2(verifier, group_public_params, presentation)]
    /\ UNCHANGED <<ssp, spp, context_call, issue_call, receive_call, present_call, sign_call, verify_signature_call>>

VerifyProfileKeyCredentialPresentation(server_seed, group_public_params) ==
    /\ present_call.fn \in {"create_profile_key_credential_presentation", "create_profile_key_credential_presentation_v1", "create_profile_key_credential_presentation_v2"}
    /\ verify_call = NoCall
    /\ LET verifier == generate(server_seed)
           presentation == AsAny(present_call)
       IN  verify_call' =
               [fn |-> "verify_profile_key_credential_presentation",
                args |-> [server_seed |-> server_seed,
                          group_public_params |-> group_public_params],
                ret |-> verify_profile_key_credential_presentation(verifier, group_public_params, presentation)]
    /\ UNCHANGED <<ssp, spp, context_call, issue_call, receive_call, present_call, sign_call, verify_signature_call>>

VerifyProfileKeyCredentialPresentationV1(server_seed, group_public_params) ==
    /\ present_call.fn \in {"create_profile_key_credential_presentation_v1"}
    /\ verify_call = NoCall
    /\ LET verifier == generate(server_seed)
           presentation == AsVersioned(present_call)
       IN  verify_call' =
               [fn |-> "verify_profile_key_credential_presentation_v1",
                args |-> [server_seed |-> server_seed,
                          group_public_params |-> group_public_params],
                ret |-> verify_profile_key_credential_presentation_v1(verifier, group_public_params, presentation)]
    /\ UNCHANGED <<ssp, spp, context_call, issue_call, receive_call, present_call, sign_call, verify_signature_call>>

VerifyProfileKeyCredentialPresentationV2(server_seed, group_public_params) ==
    /\ present_call.fn \in {"create_profile_key_credential_presentation_v2"}
    /\ verify_call = NoCall
    /\ LET verifier == generate(server_seed)
           presentation == AsVersioned(present_call)
       IN  verify_call' =
               [fn |-> "verify_profile_key_credential_presentation_v2",
                args |-> [server_seed |-> server_seed,
                          group_public_params |-> group_public_params],
                ret |-> verify_profile_key_credential_presentation_v2(verifier, group_public_params, presentation)]
    /\ UNCHANGED <<ssp, spp, context_call, issue_call, receive_call, present_call, sign_call, verify_signature_call>>

VerifyPniCredentialPresentation(server_seed, group_public_params) ==
    /\ present_call.fn \in {"create_pni_credential_presentation", "create_pni_credential_presentation_v1", "create_pni_credential_presentation_v2"}
    /\ verify_call = NoCall
    /\ LET verifier == generate(server_seed)
           presentation == AsAny(present_call)
       IN  verify_call' =
               [fn |-> "verify_pni_credential_presentation",
                args |-> [server_seed |-> server_seed,
                          group_public_params |-> group_public_params],
                ret |-> verify_pni_credential_presentation(verifier, group_public_params, presentation)]
    /\ UNCHANGED <<ssp, spp, context_call, issue_call, receive_call, present_call, sign_call, verify_signature_call>>

VerifyPniCredentialPresentationV1(server_seed, group_public_params) ==
    /\ present_call.fn \in {"create_pni_credential_presentation_v1"}
    /\ verify_call = NoCall
    /\ LET verifier == generate(server_seed)
           presentation == AsVersioned(present_call)
       IN  verify_call' =
               [fn |-> "verify_pni_credential_presentation_v1",
                args |-> [server_seed |-> server_seed,
                          group_public_params |-> group_public_params],
                ret |-> verify_pni_credential_presentation_v1(verifier, group_public_params, presentation)]
    /\ UNCHANGED <<ssp, spp, context_call, issue_call, receive_call, present_call, sign_call, verify_signature_call>>

VerifyPniCredentialPresentationV2(server_seed, group_public_params) ==
    /\ present_call.fn \in {"create_pni_credential_presentation_v2"}
    /\ verify_call = NoCall
    /\ LET verifier == generate(server_seed)
           presentation == AsVersioned(present_call)
       IN  verify_call' =
               [fn |-> "verify_pni_credential_presentation_v2",
                args |-> [server_seed |-> server_seed,
                          group_public_params |-> group_public_params],
                ret |-> verify_pni_credential_presentation_v2(verifier, group_public_params, presentation)]
    /\ UNCHANGED <<ssp, spp, context_call, issue_call, receive_call, present_call, sign_call, verify_signature_call>>

VerifyProfileKeyCredentialV3Presentation(server_seed, group_public_params) ==
    /\ present_call.fn \in {"create_profile_key_credential_v3_presentation"}
    /\ verify_call = NoCall
    /\ LET verifier == generate(server_seed)
           presentation == AsVersioned(present_call)
       IN  verify_call' =
               [fn |-> "verify_profile_key_credential_v3_presentation",
                args |-> [server_seed |-> server_seed,
                          group_public_params |-> group_public_params],
                ret |-> verify_profile_key_credential_v3_presentation(verifier, group_public_params, presentation)]
    /\ UNCHANGED <<ssp, spp, context_call, issue_call, receive_call, present_call, sign_call, verify_signature_call>>

VerifyReceiptCredentialPresentation(server_seed) ==
    /\ present_call.fn = "create_receipt_credential_presentation"
    /\ verify_call = NoCall
    /\ LET verifier == generate(server_seed)
       IN  verify_call' =
               [fn |-> "verify_receipt_credential_presentation",
                args |-> [server_seed |-> server_seed],
                ret |-> verify_receipt_credential_presentation(verifier,
                                                               present_call.ret)]
    /\ UNCHANGED <<ssp, spp, context_call, issue_call, receive_call, present_call, sign_call, verify_signature_call>>

\* The signature sub-API is called by a caller of its own, on the same params
\* as the credential operations.
Messages == {1, 2}

\* Faulty variant of Sign: the call keeps state in the params it was given (the
\* signing key pair is replaced by one drawn from the call's stream).
Sign_rekeying(randomness, message) ==
    /\ ssp # NoParams
    /\ sign_call = NoCall
    /\ sign_call' =
           [fn |-> "sign",
            args |-> [randomness |-> randomness, message |-> message],
            ret |-> sign(ssp, randomness, message)]
    /\ ssp' = [ssp EXCEPT !.sig_key_pair =
                  KeyPair_generate(
                      Sho_new("Signal_ZKGroup_20200424_Random_ServerSecretParams_Sign",
                              randomness), 1)]
    /\ UNCHANGED <<spp, context_call, issue_call, receive_call, present_call, verify_call, verify_signature_call>>

Sign(randomness, message) ==
    /\ ssp # NoParams
    /\ sign_call = NoCall
    /\ sign_call' =
           [fn |-> "sign",
            args |-> [randomness |-> randomness, message |-> message],
            ret |-> sign(ssp, randomness, message)]
    /\ UNCHANGED <<ssp, spp, context_call, issue_call, receive_call, present_call, verify_call, verify_signature_call>>

VerifySignature(server_seed, message) ==
    /\ sign_call # NoCall
    /\ verify_signature_call = NoCall
    /\ LET verifier == get_public_params(generate(server_seed))
       IN  verify_signature_call' =
               [fn |-> "verify_signature",
                args |-> [server_seed |-> server_seed, message |-> message],
                ret |-> verify_signature(verifier, message, sign_call.ret)]
    /\ UNCHANGED <<ssp, spp, context_call, issue_call, receive_call, present_call, verify_call, sign_call>>

Next ==
    \/ \E r \in IssuerSeeds : Generate(r)
    \/ GetPublicParams
    \/ \E r \in Randomness, u \in UidBytes, p \in ProfileKeys :
           CreateProfileKeyCredentialRequestContext(r, u, p)
    \/ \E r \in Randomness, u \in UidBytes, p \in ProfileKeys :
           CreateProfileKeyCredentialV3RequestContext(r, u, p)
    \/ \E r \in Randomness, a \in UidBytes, n \in UidBytes, p \in ProfileKeys :
           CreatePniCredentialRequestContext(r, a, n, p)
    \/ \E r \in Randomness, b \in ReceiptSerials :
           CreateReceiptCredentialRequestContext(r, b)
    \/ \E r \in Randomness, u \in UidBytes, t \in Times : IssueAuthCredential(r, u, t)
    \/ \E r \in Randomness, u \in UidBytes, c \in Commitments :
           IssueProfileKeyCredential(r, u, c)
    \/ \E r \in Randomness, u \in UidBytes, c \in Commitments :
           IssueProfileKeyCredentialV3(r, u, c)
    \/ \E r \in Randomness, u \in UidBytes, n \in UidBytes, c \in Commitments :
           IssuePniCredential(r, u, n, c)
    \/ \E r \in Randomness, t \in Times, l \in ReceiptLevels :
           IssueReceiptCredential(r, t, l)
    \/ \E u \in UidBytes, t \in Times : ReceiveAuthCredential(u, t)
    \/ ReceiveProfileKeyCredential
    \/ ReceiveProfileKeyCredentialV3
    \/ ReceivePniCredential
    \/ ReceiveReceiptCredential
    \/ \E r \in Randomness, g \in GroupSeeds : CreateAuthCredentialPresentation(r, g)
    \/ \E r \in Randomness, g \in GroupSeeds : CreateAuthCredentialPresentationV1(r, g)
    \/ \E r \in Randomness, g \in GroupSeeds : CreateAuthCredentialPresentationV2(r, g)
    \/ \E r \in Randomness, g \in GroupSeeds : CreateProfileKeyCredentialPresentation(r, g)
    \/ \E r \in Randomness, g \in GroupSeeds : CreateProfileKeyCredentialPresentationV1(r, g)
    \/ \E r \in Randomness, g \in GroupSeeds : CreateProfileKeyCredentialPresentationV2(r, g)
    \/ \E r \in Randomness, g \in GroupSeeds : CreatePniCredentialPresentation(r, g)
    \/ \E r \in Randomness, g \in GroupSeeds : CreatePniCredentialPresentationV1(r, g)
    \/ \E r \in Randomness, g \in GroupSeeds : CreatePniCredentialPresentationV2(r, g)
    \/ \E r \in Randomness, g \in GroupSeeds : CreateProfileKeyCredentialV3Presentation(r, g)
    \/ \E r \in Randomness : CreateReceiptCredentialPresentation(r)
    \/ \E s \in ServerSeeds, g \in GroupPublicParamsValues : VerifyAuthCredentialPresentation(s, g)
    \/ \E s \in ServerSeeds, g \in GroupPublicParamsValues : VerifyAuthCredentialPresentationV1(s, g)
    \/ \E s \in ServerSeeds, g \in GroupPublicParamsValues : VerifyAuthCredentialPresentationV2(s, g)
    \/ \E s \in ServerSeeds, g \in GroupPublicParamsValues : VerifyProfileKeyCredentialPresentation(s, g)
    \/ \E s \in ServerSeeds, g \in GroupPublicParamsValues : VerifyProfileKeyCredentialPresentationV1(s, g)
    \/ \E s \in ServerSeeds, g \in GroupPublicParamsValues : VerifyProfileKeyCredentialPresentationV2(s, g)
    \/ \E s \in ServerSeeds, g \in GroupPublicParamsValues : VerifyPniCredentialPresentation(s, g)
    \/ \E s \in ServerSeeds, g \in GroupPublicParamsValues : VerifyPniCredentialPresentationV1(s, g)
    \/ \E s \in ServerSeeds, g \in GroupPublicParamsValues : VerifyPniCredentialPresentationV2(s, g)
    \/ \E s \in ServerSeeds, g \in GroupPublicParamsValues : VerifyProfileKeyCredentialV3Presentation(s, g)
    \/ \E s \in ServerSeeds : VerifyReceiptCredentialPresentation(s)

Spec == Init /\ [][Next]_vars

\* =========================================================================
\* Properties of the issuance and presentation protocol
\* =========================================================================
ProfileKeyFamilyIssue ==
    {"issue_profile_key_credential", "issue_profile_key_credential_v3",
     "issue_pni_credential"}

BlindedReceive ==
    {"receive_profile_key_credential", "receive_profile_key_credential_v3",
     "receive_pni_credential", "receive_receipt_credential"}

AuthVerify ==
    {"verify_auth_credential_presentation", "verify_auth_credential_presentation_v1",
     "verify_auth_credential_presentation_v2"}

ProfileKeyVerify ==
    {"verify_profile_key_credential_presentation",
     "verify_profile_key_credential_presentation_v1",
     "verify_profile_key_credential_presentation_v2"}

PniVerify ==
    {"verify_pni_credential_presentation", "verify_pni_credential_presentation_v1",
     "verify_pni_credential_presentation_v2"}

RequestProofVerify == "ProfileKeyCredentialRequestProof::verify"

IssuanceProofVerify ==
    [receive_auth_credential |-> "AuthCredentialIssuanceProof::verify",
     receive_profile_key_credential |-> "ProfileKeyCredentialIssuanceProof::verify",
     receive_profile_key_credential_v3 |-> "ProfileKeyCredentialV3IssuanceProof::verify",
     receive_pni_credential |-> "PniCredentialIssuanceProof::verify",
     receive_receipt_credential |-> "ReceiptCredentialIssuanceProof::verify"]

Decrypt ==
    {"decrypt_blinded_profile_key_credential", "decrypt_blinded_profile_key_credential_v3",
     "decrypt_blinded_pni_credential", "decrypt_blinded_receipt_credential"}

\* The uid the holder built the profile-key-family request context for.
ContextUid ==
    IF context_call.fn = "create_pni_credential_request_context"
    THEN context_call.args.aci_bytes
    ELSE context_call.args.uid_bytes

\* The commitment of the profile key and uid the request was built for.
ContextCommitment == ProfileKey_get_commitment(context_call.args.profile_key, ContextUid)

\* The seed the issuer was generated from.
IssuerSeed == CHOOSE r \in IssuerSeeds : generate(r) = ssp

GroupPublicParamsOf(group_seed) ==
    GroupSecretParams_get_public_params(GroupSecretParams_generate(group_seed))

\* The verifier is the issuing server and is given the public params of the
\* group the presentation was created under.
SameServer == verify_call.args.server_seed = IssuerSeed
MatchingGroup ==
    verify_call.args.group_public_params = GroupPublicParamsOf(present_call.args.group_seed)

\* What the verify_* call of this attempt returns when made on `self`.
VerifyUnder(self) ==
    CASE verify_call.fn = "verify_auth_credential_presentation" ->
            verify_auth_credential_presentation(
                self, verify_call.args.group_public_params, AsAny(present_call))
      [] verify_call.fn = "verify_auth_credential_presentation_v1" ->
            verify_auth_credential_presentation_v1(
                self, verify_call.args.group_public_params, AsVersioned(present_call))
      [] verify_call.fn = "verify_auth_credential_presentation_v2" ->
            verify_auth_credential_presentation_v2(
                self, verify_call.args.group_public_params, AsVersioned(present_call))
      [] verify_call.fn = "verify_profile_key_credential_presentation" ->
            verify_profile_key_credential_presentation(
                self, verify_call.args.group_public_params, AsAny(present_call))
      [] verify_call.fn = "verify_profile_key_credential_presentation_v1" ->
            verify_profile_key_credential_presentation_v1(
                self, verify_call.args.group_public_params, AsVersioned(present_call))
      [] verify_call.fn = "verify_profile_key_credential_presentation_v2" ->
            verify_profile_key_credential_presentation_v2(
                self, verify_call.args.group_public_params, AsVersioned(present_call))
      [] verify_call.fn = "verify_profile_key_credential_v3_presentation" ->
            verify_profile_key_credential_v3_presentation(
                self, verify_call.args.group_public_params, AsVersioned(present_call))
      [] verify_call.fn = "verify_pni_credential_presentation" ->
            verify_pni_credential_presentation(
                self, verify_call.args.group_public_params, AsAny(present_call))
      [] verify_call.fn = "verify_pni_credential_presentation_v1" ->
            verify_pni_credential_presentation_v1(
                self, verify_call.args.group_public_params, AsVersioned(present_call))
      [] verify_call.fn = "verify_pni_credential_presentation_v2" ->
            verify_pni_credential_presentation_v2(
                self, verify_call.args.group_public_params, AsVersioned(present_call))
      [] verify_call.fn = "verify_receipt_credential_presentation" ->
            verify_receipt_credential_presentation(self, present_call.ret)

\* C1: issuance round trip.  With the issuer's server params and the public
\* params derived from them, when the commitment and the attributes the
\* issuer supplies agree with the holder's, issue_<kind> returns a response,
\* receive_<kind> applied to it (with the holder's own context, or for Auth
\* the same uid and redemption time) returns Ok, and the credential carries
\* exactly the holder's attributes: uid / aci, pni, profile key bytes,
\* receipt serial.
C1_IssuanceRoundTrip ==
    /\ (/\ issue_call.fn \in ProfileKeyFamilyIssue
        /\ issue_call.args.commitment = ContextCommitment)
       => issue_call.ret.ok
    /\ (/\ receive_call.fn = "receive_auth_credential"
        /\ receive_call.args.uid_bytes = issue_call.args.uid_bytes
        /\ receive_call.args.redemption_time = issue_call.args.redemption_time)
       => /\ receive_call.ret.ok
          /\ receive_call.ret.value.uid = UidStruct_new(receive_call.args.uid_bytes)
          /\ receive_call.ret.value.redemption_time = receive_call.args.redemption_time
          /\ receive_call.ret.value.credential.attrs =
                 [uid |-> UidStruct_new(receive_call.args.uid_bytes),
                  redemption_time |-> receive_call.args.redemption_time]
          /\ CredentialValidUnder(receive_call.ret.value.credential,
                                  spp.auth_credentials_public_key)
    /\ (/\ receive_call.fn \in {"receive_profile_key_credential",
                                "receive_profile_key_credential_v3"}
        /\ receive_call.args.context = context_call.ret
        /\ issue_call.args.uid_bytes = context_call.args.uid_bytes)
       => /\ receive_call.ret.ok
          /\ receive_call.ret.value.uid_bytes = context_call.args.uid_bytes
          /\ receive_call.ret.value.profile_key_bytes = context_call.args.profile_key
          /\ receive_call.ret.value.credential.attrs =
                 [uid |-> UidStruct_new(context_call.args.uid_bytes)]
          /\ receive_call.ret.value.credential.hidden =
                 ProfileKeyStruct_new(context_call.args.profile_key,
                                      context_call.args.uid_bytes)
          /\ CredentialValidUnder(
                 receive_call.ret.value.credential,
                 IF receive_call.fn = "receive_profile_key_credential"
                 THEN spp.profile_key_credentials_public_key
                 ELSE spp.profile_key_credentials_v3_public_key)
    /\ (/\ receive_call.fn = "receive_pni_credential"
        /\ receive_call.args.context = context_call.ret
        /\ issue_call.args.uid_bytes = context_call.args.aci_bytes
        /\ issue_call.args.pni_bytes = context_call.args.pni_bytes)
       => /\ receive_call.ret.ok
          /\ receive_call.ret.value.aci_bytes = context_call.args.aci_bytes
          /\ receive_call.ret.value.pni_bytes = context_call.args.pni_bytes
          /\ receive_call.ret.value.profile_key_bytes = context_call.args.profile_key
          /\ receive_call.ret.value.credential.attrs =
                 [uid |-> UidStruct_new(context_call.args.aci_bytes),
                  pni |-> UidStruct_new(context_call.args.pni_bytes)]
          /\ receive_call.ret.value.credential.hidden =
                 ProfileKeyStruct_new(context_call.args.profile_key,
                                      context_call.args.aci_bytes)
          /\ CredentialValidUnder(receive_call.ret.value.credential,
                                  spp.pni_credentials_public_key)
    /\ (/\ receive_call.fn = "receive_receipt_credential"
        /\ receive_call.args.context = context_call.ret)
       => /\ receive_call.ret.ok
          /\ receive_call.ret.value.receipt_serial_bytes =
                 context_call.args.receipt_serial_bytes
          /\ receive_call.ret.value.receipt_expiration_time =
                 issue_call.args.receipt_expiration_time
          /\ receive_call.ret.value.receipt_level = issue_call.args.receipt_level
          /\ receive_call.ret.value.credential.hidden =
                 [receipt_serial_bytes |-> context_call.args.receipt_serial_bytes]
          /\ CredentialValidUnder(receive_call.ret.value.credential,
                                  spp.receipt_credentials_public_key)

\* A ProfileKeyCredentialV3 was received for the holder's own context.
C1_Witness ==
    /\ receive_call.fn = "receive_profile_key_credential_v3"
    /\ receive_call.args.context = context_call.ret
    /\ issue_call.args.uid_bytes = context_call.args.uid_bytes
    /\ receive_call.ret.ok
    /\ receive_call.ret.value.profile_key_bytes = context_call.args.profile_key

\* C2: presentation round trip for Auth, ProfileKey and PNI (V1, V2 and the
\* dispatching entry points) and for Receipt: a presentation created from a
\* received credential verifies Ok under the issuing server's
\* ServerSecretParams with the public params of the group it was created
\* under.
C2_PresentationRoundTrip ==
    /\ (/\ verify_call.fn \in AuthVerify \cup ProfileKeyVerify \cup PniVerify
        /\ SameServer
        /\ MatchingGroup)
       => verify_call.ret = Ok(Unit)
    /\ (/\ verify_call.fn = "verify_receipt_credential_presentation"
        /\ SameServer)
       => verify_call.ret = Ok(Unit)

\* A V1 PNI presentation was accepted by the issuing server for its group.
C2_Witness ==
    /\ verify_call.fn = "verify_pni_credential_presentation_v1"
    /\ SameServer
    /\ MatchingGroup
    /\ verify_call.ret = Ok(Unit)

\* C3: ProfileKeyV3 presentation round trip: the presentation returned by
\* create_profile_key_credential_v3_presentation for a credential obtained
\* through the V3 request context, issue and receive verifies Ok under
\* verify_profile_key_credential_v3_presentation of the same server with the
\* matching group public params.
C3_ProfileKeyV3PresentationRoundTrip ==
    (/\ verify_call.fn = "verify_profile_key_credential_v3_presentation"
     /\ SameServer
     /\ MatchingGroup)
    => verify_call.ret = Ok(Unit)

\* C4: in issue_profile_key_credential, issue_profile_key_credential_v3 and
\* issue_pni_credential the request proof is verified against
\* (request.public_key, request.ciphertext, commitment) before any blinded
\* credential or issuance proof is created; when the verification fails the
\* operation returns VerificationFailure, having made no other call, and
\* produces no response.
C4_RequestVerifiedBeforeIssue ==
    issue_call.fn \in ProfileKeyFamilyIssue =>
        LET request == ProfileKeyCredentialRequestContext_get_request(context_call.ret)
            verified == ProfileKeyCredentialRequestProof_verify(
                            request.proof, request.public_key, request.ciphertext,
                            issue_call.args.commitment.commitment)
        IN  /\ issue_call.calls[1] = RequestProofVerify
            /\ \A i \in 2..Len(issue_call.calls) : issue_call.calls[i] # RequestProofVerify
            /\ ~verified => /\ issue_call.ret = ZkGroupVerificationFailure
                            /\ issue_call.calls = <<RequestProofVerify>>
            /\ verified => /\ issue_call.ret.ok
                           /\ Len(issue_call.calls) > 1

\* issue_profile_key_credential stopped at a failed request verification.
C4_Witness ==
    /\ issue_call.fn = "issue_profile_key_credential"
    /\ issue_call.ret = ZkGroupVerificationFailure
    /\ issue_call.calls = <<RequestProofVerify>>

\* C5 as stated: every one of the five issue_<kind>_credential operations
\* returns a Result and issues only after first verifying the request,
\* issue_receipt_credential and issue_auth_credential included.
C5_EveryIssueVerifiesFirst ==
    issue_call # NoCall =>
        /\ "ok" \in DOMAIN issue_call.ret
        /\ issue_call.calls[1] = RequestProofVerify

\* C5: issue_profile_key_credential, issue_profile_key_credential_v3 and
\* issue_pni_credential return a Result and never issue a blinded credential
\* for a request whose proof they have not first verified;
\* issue_auth_credential and issue_receipt_credential return the response
\* itself, never a VerificationFailure, and verify nothing before issuing.
C5_OnlyProfileKeyFamilyVerifies ==
    /\ issue_call.fn \in ProfileKeyFamilyIssue =>
        /\ "ok" \in DOMAIN issue_call.ret
        /\ issue_call.calls[1] = RequestProofVerify
        /\ issue_call.ret.ok =>
               /\ "blinded_credential" \in DOMAIN issue_call.ret.value
               /\ ProfileKeyCredentialRequestProof_verify(
                      context_call.ret.proof,
                      get_public_key(context_call.ret.key_pair),
                      get_ciphertext(context_call.ret.ciphertext_with_secret_nonce),
                      issue_call.args.commitment.commitment)
    /\ issue_call.fn = "issue_auth_credential" =>
        /\ "ok" \notin DOMAIN issue_call.ret
        /\ "credential" \in DOMAIN issue_call.ret
        /\ \A i \in DOMAIN issue_call.calls : issue_call.calls[i] # RequestProofVerify
    /\ issue_call.fn = "issue_receipt_credential" =>
        /\ "ok" \notin DOMAIN issue_call.ret
        /\ "blinded_credential" \in DOMAIN issue_call.ret
        /\ \A i \in DOMAIN issue_call.calls : issue_call.calls[i] # RequestProofVerify

\* issue_receipt_credential issued a blinded credential, no call of it being
\* a verification.
C5_Witness ==
    /\ issue_call.fn = "issue_receipt_credential"
    /\ "blinded_credential" \in DOMAIN issue_call.ret
    /\ issue_call.calls[1] = "create_blinded_receipt_credential"

\* C6: issue_profile_key_credential, issue_profile_key_credential_v3 and
\* issue_pni_credential return VerificationFailure whenever the commitment
\* passed to the call is not the commitment of the profile key and uid the
\* request's ciphertext and proof were built for.
C6_WrongCommitmentRejected ==
    (/\ issue_call.fn \in ProfileKeyFamilyIssue
     /\ issue_call.args.commitment # ContextCommitment)
    => issue_call.ret = ZkGroupVerificationFailure

\* issue_profile_key_credential_v3 rejected a commitment of another profile
\* key or uid.
C6_Witness ==
    /\ issue_call.fn = "issue_profile_key_credential_v3"
    /\ issue_call.args.commitment # ContextCommitment
    /\ issue_call.ret = ZkGroupVerificationFailure

\* C7: in every receive_<kind>_credential operation the issuance proof is
\* verified before the blinded credential is decrypted; when verification
\* fails the result is only VerificationFailure: decrypt_blinded_* is not
\* called and no credential value is returned.
C7_IssuanceVerifiedBeforeDecrypt ==
    receive_call # NoCall =>
        /\ receive_call.calls[1] = IssuanceProofVerify[receive_call.fn]
        /\ \A i \in DOMAIN receive_call.calls :
               receive_call.calls[i] \in Decrypt => i > 1
        /\ ~receive_call.ret.ok =>
               /\ receive_call.ret = ZkGroupVerificationFailure
               /\ "value" \notin DOMAIN receive_call.ret
               /\ \A i \in DOMAIN receive_call.calls : receive_call.calls[i] \notin Decrypt
        /\ (receive_call.ret.ok /\ receive_call.fn \in BlindedReceive) =>
               /\ Len(receive_call.calls) = 2
               /\ receive_call.calls[2] \in Decrypt

\* receive_receipt_credential failed its issuance proof verification.
C7_Witness ==
    /\ receive_call.fn = "receive_receipt_credential"
    /\ receive_call.ret = ZkGroupVerificationFailure
    /\ receive_call.calls = <<"ReceiptCredentialIssuanceProof::verify">>

\* C8: a response is bound to the request it was issued for:
\* receive_<kind>_credential(context', response) returns VerificationFailure
\* whenever context' has a different one-time public key, ciphertext or uid
\* than the request context the issuer's request was derived from.
C8_ResponseBoundToRequest ==
    receive_call.fn \in BlindedReceive =>
        LET given == receive_call.args.context
            own == context_call.ret
            other_uid ==
                CASE receive_call.fn = "receive_pni_credential" ->
                        given.aci_bytes # own.aci_bytes
                  [] receive_call.fn = "receive_receipt_credential" -> FALSE
                  [] OTHER -> given.uid_bytes # own.uid_bytes
        IN  (\/ get_public_key(given.key_pair) # get_public_key(own.key_pair)
             \/ get_ciphertext(given.ciphertext_with_secret_nonce)
                    # get_ciphertext(own.ciphertext_with_secret_nonce)
             \/ other_uid)
            => receive_call.ret = ZkGroupVerificationFailure

\* receive_pni_credential rejected the response under a context with another
\* one-time key pair.
C8_Witness ==
    /\ receive_call.fn = "receive_pni_credential"
    /\ get_public_key(receive_call.args.context.key_pair)
           # get_public_key(context_call.ret.key_pair)
    /\ receive_call.ret = ZkGroupVerificationFailure

\* C9: a presentation that verifies under the ServerSecretParams that issued
\* its credential is rejected with VerificationFailure by the same
\* verify_<kind>_credential_presentation of a ServerSecretParams generated
\* from a different seed.
C9_OtherServerRejects ==
    (/\ verify_call # NoCall
     /\ verify_call.args.server_seed # IssuerSeed
     /\ VerifyUnder(ssp).ok)
    => verify_call.ret = ZkGroupVerificationFailure

\* An auth presentation the issuer accepts was rejected by the other server.
C9_Witness ==
    /\ verify_call.fn = "verify_auth_credential_presentation"
    /\ verify_call.args.server_seed # IssuerSeed
    /\ VerifyUnder(ssp).ok
    /\ verify_call.ret = ZkGroupVerificationFailure

\* C10: a presentation created with one group's GroupSecretParams is rejected
\* with VerificationFailure when verified under the GroupPublicParams of a
\* different group, for Auth, ProfileKey, ProfileKeyV3 and PNI.  Field by
\* field: an Auth presentation is rejected whenever uid_enc_public_key
\* differs, the other kinds whenever either public key differs.
C10_OtherGroupRejects ==
    LET given == verify_call.args.group_public_params
        own == GroupPublicParamsOf(present_call.args.group_seed)
    IN  /\ (/\ verify_call.fn \in AuthVerify \cup ProfileKeyVerify \cup PniVerify
                   \cup {"verify_profile_key_credential_v3_presentation"}
            /\ given \in {GroupPublicParamsOf(g) : g \in GroupSeeds}
            /\ given # own)
           => verify_call.ret = ZkGroupVerificationFailure
        /\ (/\ verify_call.fn \in AuthVerify
            /\ given.uid_enc_public_key # own.uid_enc_public_key)
           => verify_call.ret = ZkGroupVerificationFailure
        /\ (/\ verify_call.fn \in ProfileKeyVerify \cup PniVerify
                   \cup {"verify_profile_key_credential_v3_presentation"}
            /\ given # own)
           => verify_call.ret = ZkGroupVerificationFailure

\* The issuing server rejected a V2 profile key presentation under the public
\* params of the other group.
C10_Witness ==
    /\ verify_call.fn = "verify_profile_key_credential_presentation_v2"
    /\ SameServer
    /\ verify_call.args.group_public_params \in {GroupPublicParamsOf(g) : g \in GroupSeeds}
    /\ ~MatchingGroup
    /\ verify_call.ret = ZkGroupVerificationFailure

\* ------------------------------------------------------------- tampering
AuthCreate ==
    {"create_auth_credential_presentation", "create_auth_credential_presentation_v1",
     "create_auth_credential_presentation_v2"}

ProfileKeyCreate ==
    {"create_profile_key_credential_presentation",
     "create_profile_key_credential_presentation_v1",
     "create_profile_key_credential_presentation_v2"}

PniCreate ==
    {"create_pni_credential_presentation", "create_pni_credential_presentation_v1",
     "create_pni_credential_presentation_v2"}

\* The create_* operations of the kind this attempt presented.
SameKindCreate ==
    IF present_call.fn \in AuthCreate THEN AuthCreate
    ELSE IF present_call.fn \in ProfileKeyCreate THEN ProfileKeyCreate
    ELSE IF present_call.fn \in PniCreate THEN PniCreate
    ELSE {present_call.fn}

\* The versioned presentation struct this attempt created.
PresentedStruct ==
    IF IsWrapped(present_call) THEN present_call.ret.presentation ELSE present_call.ret

\* The group the presentation of this attempt was created under (a receipt
\* presentation has none).
PresentGroupSeed ==
    IF present_call.fn = "create_receipt_credential_presentation"
    THEN 1 ELSE present_call.args.group_seed

\* The versioned struct that create operation fn returns for the credential
\* of this attempt with the given randomness and group.
CreateStructOf(fn, randomness, group_seed) ==
    LET group_secret_params == GroupSecretParams_generate(group_seed)
        credential == receive_call.ret.value
    IN  CASE fn = "create_auth_credential_presentation" ->
                create_auth_credential_presentation(spp, randomness, group_secret_params, credential).presentation
          [] fn = "create_auth_credential_presentation_v1" ->
                create_auth_credential_presentation_v1(spp, randomness, group_secret_params, credential)
          [] fn = "create_auth_credential_presentation_v2" ->
                create_auth_credential_presentation_v2(spp, randomness, group_secret_params, credential)
          [] fn = "create_profile_key_credential_presentation" ->
                create_profile_key_credential_presentation(spp, randomness, group_secret_params, credential).presentation
          [] fn = "create_profile_key_credential_presentation_v1" ->
                create_profile_key_credential_presentation_v1(spp, randomness, group_secret_params, credential)
          [] fn = "create_profile_key_credential_presentation_v2" ->
                create_profile_key_credential_presentation_v2(spp, randomness, group_secret_params, credential)
          [] fn = "create_profile_key_credential_v3_presentation" ->
                create_profile_key_credential_v3_presentation(spp, randomness, group_secret_params, credential)
          [] fn = "create_pni_credential_presentation" ->
                create_pni_credential_presentation(spp, randomness, group_secret_params, credential).presentation
          [] fn = "create_pni_credential_presentation_v1" ->
                create_pni_credential_presentation_v1(spp, randomness, group_secret_params, credential)
          [] fn = "create_pni_credential_presentation_v2" ->
                create_pni_credential_presentation_v2(spp, randomness, group_secret_params, credential)
          [] fn = "create_receipt_credential_presentation" ->
                create_receipt_credential_presentation(spp, randomness, credential)

\* What the verify_* call of this attempt returns on the same server with the
\* same group public params when the versioned struct p is presented in
\* place of the created one (in the same variant, for a dispatching entry
\* point).
Reverify(p) ==
    LET self == generate(verify_call.args.server_seed)
        any == [variant |-> AsAny(present_call).variant, presentation |-> p]
    IN  IF verify_call.fn = "verify_receipt_credential_presentation"
        THEN verify_receipt_credential_presentation(self, p)
        ELSE LET group_public_params == verify_call.args.group_public_params
             IN  CASE verify_call.fn = "verify_auth_credential_presentation" ->
                        verify_auth_credential_presentation(self, group_public_params, any)
                   [] verify_call.fn = "verify_auth_credential_presentation_v1" ->
                        verify_auth_credential_presentation_v1(self, group_public_params, p)
                   [] verify_call.fn = "verify_auth_credential_presentation_v2" ->
                        verify_auth_credential_presentation_v2(self, group_public_params, p)
                   [] verify_call.fn = "verify_profile_key_credential_presentation" ->
                        verify_profile_key_credential_presentation(self, group_public_params, any)
                   [] verify_call.fn = "verify_profile_key_credential_presentation_v1" ->
                        verify_profile_key_credential_presentation_v1(self, group_public_params, p)
                   [] verify_call.fn = "verify_profile_key_credential_presentation_v2" ->
                        verify_profile_key_credential_presentation_v2(self, group_public_params, p)
                   [] verify_call.fn = "verify_profile_key_credential_v3_presentation" ->
                        verify_profile_key_credential_v3_presentation(self, group_public_params, p)
                   [] verify_call.fn = "verify_pni_credential_presentation" ->
                        verify_pni_credential_presentation(self, group_public_params, any)
                   [] verify_call.fn = "verify_pni_credential_presentation_v1" ->
                        verify_pni_credential_presentation_v1(self, group_public_params, p)
                   [] verify_call.fn = "verify_pni_credential_presentation_v2" ->
                        verify_pni_credential_presentation_v2(self, group_public_params, p)

\* The verify_* call of this attempt accepted the presentation.
Accepted == verify_call # NoCall /\ verify_call.ret = Ok(Unit)

\* The ciphertext fields of a presentation struct.
CiphertextFields(p) ==
    DOMAIN p \cap {"ciphertext", "uid_enc_ciphertext", "aci_enc_ciphertext",
                   "pni_enc_ciphertext", "profile_key_enc_ciphertext"}

\* Every ciphertext value: any plaintext (or none) under any group key.
CiphertextValues ==
    LET key_pairs == UNION {{GroupSecretParams_generate(g).uid_enc_key_pair,
                             GroupSecretParams_generate(g).profile_key_enc_key_pair}
                            : g \in GroupSeeds}
        plaintexts == {UidStruct_new(u) : u \in UidBytes}
                      \cup {ProfileKeyStruct_new(k, u) : k \in ProfileKeys, u \in UidBytes}
                      \cup {Garbage}
    IN  {GroupCiphertext(k, m) : k \in key_pairs, m \in plaintexts}

\* The proofs of the presentations the holder can create from the credential
\* of this attempt: any version of the kind, any randomness, any group.
HolderProofs ==
    {CreateStructOf(f, r, g).proof : f \in SameKindCreate, r \in Randomness, g \in GroupSeeds}

\* The proofs of the presentations of the presented version created from the
\* same credential under the same group, with any randomness.
RePresentationProofs ==
    {s.proof : s \in {t \in {CreateStructOf(f, r, PresentGroupSeed)
                             : f \in SameKindCreate, r \in Randomness}
                      : DOMAIN t = DOMAIN PresentedStruct
                        /\ t.proof.relation = PresentedStruct.proof.relation}}

\* Every proof value: the holder's proofs and the values that satisfy no
\* verification equation (a proof with flipped bytes).
ProofValues == HolderProofs \cup {[q EXCEPT !.sound = FALSE] : q \in HolderProofs}

C12_AttributesBound ==
    LET p == PresentedStruct
    IN  /\ (Accepted /\ verify_call.fn \in AuthVerify) =>
               \A t \in (Times \cup {p.redemption_time + 1}) \ {p.redemption_time} :
                   Reverify([p EXCEPT !.redemption_time = t]) = ZkGroupVerificationFailure
        /\ (Accepted /\ verify_call.fn = "verify_receipt_credential_presentation") =>
               /\ \A t \in (Times \cup {p.receipt_expiration_time + 1})
                           \ {p.receipt_expiration_time} :
                      Reverify([p EXCEPT !.receipt_expiration_time = t])
                          = ZkGroupVerificationFailure
               /\ \A l \in (ReceiptLevels \cup {p.receipt_level + 1}) \ {p.receipt_level} :
                      Reverify([p EXCEPT !.receipt_level = l]) = ZkGroupVerificationFailure
               /\ \A s \in (ReceiptSerials \cup {p.receipt_serial_bytes + 1})
                           \ {p.receipt_serial_bytes} :
                      Reverify([p EXCEPT !.receipt_serial_bytes = s])
                          = ZkGroupVerificationFailure

\* A V2 Auth presentation was accepted and the same presentation with the
\* redemption time incremented by one is rejected.
C12_Witness ==
    /\ verify_call.fn = "verify_auth_credential_presentation_v2"
    /\ Accepted
    /\ Reverify([PresentedStruct EXCEPT
                    !.redemption_time = PresentedStruct.redemption_time + 1])
           = ZkGroupVerificationFailure

\* ------------------------------------------------------ version swapping
\* A presentation struct is the V1 struct of its kind.
IsV1Struct(p) == "reserved" \in DOMAIN p

\* The proof and ciphertexts (and redemption time) of the V1 / V2 struct p
\* carried in the struct of the other version of the same kind.
Retype(p) ==
    IF "ciphertext" \in DOMAIN p
    THEN IF IsV1Struct(p)
         THEN [version |-> <<PRESENTATION_VERSION_2>>, proof |-> p.proof,
               ciphertext |-> p.ciphertext, redemption_time |-> p.redemption_time]
         ELSE [reserved |-> <<PRESENTATION_VERSION_1>>, proof |-> p.proof,
               ciphertext |-> p.ciphertext, redemption_time |-> p.redemption_time]
    ELSE IF "pni_enc_ciphertext" \in DOMAIN p
    THEN IF IsV1Struct(p)
         THEN [version |-> <<PRESENTATION_VERSION_2>>, proof |-> p.proof,
               aci_enc_ciphertext |-> p.aci_enc_ciphertext,
               pni_enc_ciphertext |-> p.pni_enc_ciphertext,
               profile_key_enc_ciphertext |-> p.profile_key_enc_ciphertext]
         ELSE [reserved |-> <<PRESENTATION_VERSION_1>>, proof |-> p.proof,
               aci_enc_ciphertext |-> p.aci_enc_ciphertext,
               pni_enc_ciphertext |-> p.pni_enc_ciphertext,
               profile_key_enc_ciphertext |-> p.profile_key_enc_ciphertext]
    ELSE IF IsV1Struct(p)
         THEN [version |-> <<PRESENTATION_VERSION_2>>, proof |-> p.proof,
               uid_enc_ciphertext |-> p.uid_enc_ciphertext,
               profile_key_enc_ciphertext |-> p.profile_key_enc_ciphertext]
         ELSE [reserved |-> <<PRESENTATION_VERSION_1>>, proof |-> p.proof,
               uid_enc_ciphertext |-> p.uid_enc_ciphertext,
               profile_key_enc_ciphertext |-> p.profile_key_enc_ciphertext]

\* The outcomes of checking the V1 / V2 struct p under the other version of
\* its kind on `self`: by the versioned entry point and by the dispatching
\* one.
OtherVersionVerify(self, group_public_params, p) ==
    LET q == Retype(p)
        any == [variant |-> IF IsV1Struct(p) THEN "V2" ELSE "V1", presentation |-> q]
    IN  IF "ciphertext" \in DOMAIN p
        THEN {IF IsV1Struct(p)
              THEN verify_auth_credential_presentation_v2(self, group_public_params, q)
              ELSE verify_auth_credential_presentation_v1(self, group_public_params, q),
              verify_auth_credential_presentation(self, group_public_params, any)}
        ELSE IF "pni_enc_ciphertext" \in DOMAIN p
        THEN {IF IsV1Struct(p)
              THEN verify_pni_credential_presentation_v2(self, group_public_params, q)
              ELSE verify_pni_credential_presentation_v1(self, group_public_params, q),
              verify_pni_credential_presentation(self, group_public_params, any)}
        ELSE {IF IsV1Struct(p)
              THEN verify_profile_key_credential_presentation_v2(self, group_public_params, q)
              ELSE verify_profile_key_credential_presentation_v1(self, group_public_params, q),
              verify_profile_key_credential_presentation(self, group_public_params, any)}

\* C13: the versions of a kind are not interchangeable.  The proof and
\* ciphertexts of a V1 Auth, ProfileKey or PNI presentation checked under the
\* V2 relation of the same kind, and those of a V2 presentation checked
\* under the V1 relation, are rejected with ZkGroupVerificationFailure by
\* every server for every group public params, through the versioned and
\* through the dispatching entry point.
C13_VersionsNotInterchangeable ==
    present_call.fn \in AuthCreate \cup ProfileKeyCreate \cup PniCreate =>
        \A server_seed \in ServerSeeds : \A group_public_params \in GroupPublicParamsValues :
            OtherVersionVerify(generate(server_seed), group_public_params, PresentedStruct)
                = {ZkGroupVerificationFailure}

\* A V1 profile key presentation was accepted by verify_.._v1, and its proof
\* and ciphertexts are rejected by verify_.._v2 of the same server for the
\* same group.
C13_Witness ==
    /\ verify_call.fn = "verify_profile_key_credential_presentation_v1"
    /\ Accepted
    /\ verify_profile_key_credential_presentation_v2(
           generate(verify_call.args.server_seed),
           verify_call.args.group_public_params,
           Retype(PresentedStruct)) = ZkGroupVerificationFailure

\* ------------------------------------------------------ cross-kind mixing
ProfileKeyFamilyReceive ==
    {"receive_profile_key_credential", "receive_profile_key_credential_v3",
     "receive_pni_credential"}

\* The receive operation that belongs to an issue operation.
ReceiveOf ==
    [issue_profile_key_credential |-> "receive_profile_key_credential",
     issue_profile_key_credential_v3 |-> "receive_profile_key_credential_v3",
     issue_pni_credential |-> "receive_pni_credential"]

\* The holder's one-time key pair, ciphertext and request proof of context c
\* carried in a ProfileKeyCredentialRequestContext (or its V3 twin), and in a
\* PniCredentialRequestContext with the given pni.
AsProfileKeyContext(c) ==
    [reserved |-> ReservedDefault,
     uid_bytes |-> IF "aci_bytes" \in DOMAIN c THEN c.aci_bytes ELSE c.uid_bytes,
     profile_key_bytes |-> c.profile_key_bytes,
     key_pair |-> c.key_pair,
     ciphertext_with_secret_nonce |-> c.ciphertext_with_secret_nonce,
     proof |-> c.proof]

AsPniContext(c, pni_bytes) ==
    [reserved |-> ReservedDefault,
     aci_bytes |-> IF "aci_bytes" \in DOMAIN c THEN c.aci_bytes ELSE c.uid_bytes,
     pni_bytes |-> pni_bytes,
     profile_key_bytes |-> c.profile_key_bytes,
     key_pair |-> c.key_pair,
     ciphertext_with_secret_nonce |-> c.ciphertext_with_secret_nonce,
     proof |-> c.proof]

\* The outcomes of receive operation fn on the response of this attempt: with
\* the holder's own context carried in the context type of fn, and with the
\* context fn's own create_*_request_context builds from the holder's
\* randomness, uid and profile key (and any pni).
ReceiveAs(fn) ==
    LET a == context_call.args
        response == issue_call.ret.value
    IN  CASE fn = "receive_profile_key_credential" ->
                {receive_profile_key_credential(spp, c, response).ret
                 : c \in {AsProfileKeyContext(context_call.ret),
                          create_profile_key_credential_request_context(
                              spp, a.randomness, ContextUid, a.profile_key)}}
          [] fn = "receive_profile_key_credential_v3" ->
                {receive_profile_key_credential_v3(spp, c, response).ret
                 : c \in {AsProfileKeyContext(context_call.ret),
                          create_profile_key_credential_v3_request_context(
                              spp, a.randomness, ContextUid, a.profile_key)}}
          [] fn = "receive_pni_credential" ->
                {receive_pni_credential(spp, c, response).ret
                 : c \in UNION {{AsPniContext(context_call.ret, n),
                                 create_pni_credential_request_context(
                                     spp, a.randomness, ContextUid, n, a.profile_key)}
                                : n \in UidBytes}}

\* The uid (aci) ciphertext of a profile key, V3 or PNI presentation struct.
UidCiphertextOf(p) ==
    IF "aci_enc_ciphertext" \in DOMAIN p THEN p.aci_enc_ciphertext ELSE p.uid_enc_ciphertext

\* The proof and ciphertexts of struct p carried in the profile key
\* presentation struct of a version, and in the PNI struct of a version with
\* a pni ciphertext.
AsProfileKeyStruct(version, p) ==
    CASE version = "V1" ->
            [reserved |-> <<PRESENTATION_VERSION_1>>, proof |-> p.proof,
             uid_enc_ciphertext |-> UidCiphertextOf(p),
             profile_key_enc_ciphertext |-> p.profile_key_enc_ciphertext]
      [] version = "V2" ->
            [version |-> <<PRESENTATION_VERSION_2>>, proof |-> p.proof,
             uid_enc_ciphertext |-> UidCiphertextOf(p),
             profile_key_enc_ciphertext |-> p.profile_key_enc_ciphertext]
      [] version = "V3" ->
            [version |-> <<PROFILE_KEY_CREDENTIAL_VERSION_3>>, proof |-> p.proof,
             uid_enc_ciphertext |-> UidCiphertextOf(p),
             profile_key_enc_ciphertext |-> p.profile_key_enc_ciphertext]

AsPniStruct(version, p, pni_enc_ciphertext) ==
    IF version = "V1"
    THEN [reserved |-> <<PRESENTATION_VERSION_1>>, proof |-> p.proof,
          aci_enc_ciphertext |-> UidCiphertextOf(p),
          pni_enc_ciphertext |-> pni_enc_ciphertext,
          profile_key_enc_ciphertext |-> p.profile_key_enc_ciphertext]
    ELSE [version |-> <<PRESENTATION_VERSION_2>>, proof |-> p.proof,
          aci_enc_ciphertext |-> UidCiphertextOf(p),
          pni_enc_ciphertext |-> pni_enc_ciphertext,
          profile_key_enc_ciphertext |-> p.profile_key_enc_ciphertext]

\* The outcomes of the profile key (V1, V2, dispatching), V3 and PNI
\* verifications on `self` for the material of struct p.
ProfileKeyVerifyOf(self, group_public_params, p) ==
    {verify_profile_key_credential_presentation_v1(
         self, group_public_params, AsProfileKeyStruct("V1", p)),
     verify_profile_key_credential_presentation_v2(
         self, group_public_params, AsProfileKeyStruct("V2", p)),
     verify_profile_key_credential_presentation(
         self, group_public_params,
         [variant |-> "V1", presentation |-> AsProfileKeyStruct("V1", p)]),
     verify_profile_key_credential_presentation(
         self, group_public_params,
         [variant |-> "V2", presentation |-> AsProfileKeyStruct("V2", p)])}

ProfileKeyV3VerifyOf(self, group_public_params, p) ==
    {verify_profile_key_credential_v3_presentation(
         self, group_public_params, AsProfileKeyStruct("V3", p))}

PniVerifyOf(self, group_public_params, p) ==
    LET pni_ciphertexts ==
            {UidCiphertextOf(p), p.profile_key_enc_ciphertext}
            \cup {encrypt_uuid(GroupSecretParams_generate(PresentGroupSeed), n).ciphertext
                  : n \in UidBytes}
    IN  UNION {{verify_pni_credential_presentation_v1(
                    self, group_public_params, AsPniStruct("V1", p, c)),
                verify_pni_credential_presentation_v2(
                    self, group_public_params, AsPniStruct("V2", p, c)),
                verify_pni_credential_presentation(
                    self, group_public_params,
                    [variant |-> "V1", presentation |-> AsPniStruct("V1", p, c)]),
                verify_pni_credential_presentation(
                    self, group_public_params,
                    [variant |-> "V2", presentation |-> AsPniStruct("V2", p, c)])}
               : c \in pni_ciphertexts}

\* The outcomes of the verifications of the kinds other than the presented
\* one.
OtherKindVerify(self, group_public_params, p) ==
    IF present_call.fn \in ProfileKeyCreate
    THEN ProfileKeyV3VerifyOf(self, group_public_params, p)
         \cup PniVerifyOf(self, group_public_params, p)
    ELSE IF present_call.fn \in PniCreate
    THEN ProfileKeyVerifyOf(self, group_public_params, p)
         \cup ProfileKeyV3VerifyOf(self, group_public_params, p)
    ELSE ProfileKeyVerifyOf(self, group_public_params, p)
         \cup PniVerifyOf(self, group_public_params, p)

\* C14: the kinds ProfileKey, ProfileKeyV3 and PNI do not mix.  A response
\* issued by one kind's issue operation is rejected by the receive operation
\* of each other kind, and the proof and ciphertexts of a presentation
\* created for one kind are rejected by the verifications of each other kind
\* (ProfileKey V1 / V2 material by verify_profile_key_credential_v3_presentation
\* and by the PNI verifications, V3 material by the ProfileKey and PNI ones,
\* PNI material by the ProfileKey and V3 ones), on every server for every
\* group public params.
C14_KindsDoNotMix ==
    /\ (issue_call.fn \in ProfileKeyFamilyIssue /\ issue_call.ret.ok) =>
           \A fn \in ProfileKeyFamilyReceive \ {ReceiveOf[issue_call.fn]} :
               ReceiveAs(fn) = {ZkGroupVerificationFailure}
    /\ present_call.fn \in ProfileKeyCreate \cup PniCreate
                           \cup {"create_profile_key_credential_v3_presentation"} =>
           \A server_seed \in ServerSeeds :
           \A group_public_params \in GroupPublicParamsValues :
               OtherKindVerify(generate(server_seed), group_public_params, PresentedStruct)
                   = {ZkGroupVerificationFailure}

\* A V2 profile key presentation was accepted by verify_.._v2; the response
\* its credential came from is rejected by receive_profile_key_credential_v3
\* and receive_pni_credential, and its proof and ciphertexts are rejected by
\* verify_profile_key_credential_v3_presentation of the same server for the
\* same group.
C14_Witness ==
    /\ verify_call.fn = "verify_profile_key_credential_presentation_v2"
    /\ Accepted
    /\ receive_call.ret.ok
    /\ ReceiveAs("receive_profile_key_credential_v3") = {ZkGroupVerificationFailure}
    /\ ReceiveAs("receive_pni_credential") = {ZkGroupVerificationFailure}
    /\ ProfileKeyV3VerifyOf(generate(verify_call.args.server_seed),
                            verify_call.args.group_public_params,
                            PresentedStruct) = {ZkGroupVerificationFailure}

\* ---------------------------------------------------------- unlinkability
\* The create_* operations that encrypt to a group.
GroupCreate ==
    AuthCreate \cup ProfileKeyCreate \cup PniCreate
    \cup {"create_profile_key_credential_v3_presentation"}

\* The presentation the create_* call of this attempt returns for the same
\* credential and the same group with other randomness.
PresentedAgain(randomness) ==
    CreateStructOf(present_call.fn, randomness, PresentGroupSeed)

RerunServerSecretParams == generate(CHOOSE r \in IssuerSeeds : TRUE)
RerunServerPublicParams == get_public_params(RerunServerSecretParams)

RerunIssue ==
    issue_auth_credential(RerunServerSecretParams, issue_call.args.randomness,
                          issue_call.args.uid_bytes, issue_call.args.redemption_time)

RerunReceive ==
    receive_auth_credential(RerunServerPublicParams, receive_call.args.uid_bytes,
                            receive_call.args.redemption_time, RerunIssue.ret)

RerunPresent ==
    LET randomness == present_call.args.randomness
        group_secret_params == GroupSecretParams_generate(present_call.args.group_seed)
        auth_credential == RerunReceive.ret.value
    IN  CASE present_call.fn = "create_auth_credential_presentation" ->
                create_auth_credential_presentation(
                    RerunServerPublicParams, randomness, group_secret_params, auth_credential)
          [] present_call.fn = "create_auth_credential_presentation_v1" ->
                create_auth_credential_presentation_v1(
                    RerunServerPublicParams, randomness, group_secret_params, auth_credential)
          [] present_call.fn = "create_auth_credential_presentation_v2" ->
                create_auth_credential_presentation_v2(
                    RerunServerPublicParams, randomness, group_secret_params, auth_credential)

RerunVerify ==
    LET self == generate(verify_call.args.server_seed)
        group_public_params == verify_call.args.group_public_params
        any == IF IsWrapped(present_call) THEN RerunPresent
               ELSE [variant |-> IF IsV1(present_call) THEN "V1" ELSE "V2",
                     presentation |-> RerunPresent]
    IN  CASE verify_call.fn = "verify_auth_credential_presentation" ->
                verify_auth_credential_presentation(self, group_public_params, any)
          [] verify_call.fn = "verify_auth_credential_presentation_v1" ->
                verify_auth_credential_presentation_v1(self, group_public_params, RerunPresent)
          [] verify_call.fn = "verify_auth_credential_presentation_v2" ->
                verify_auth_credential_presentation_v2(self, group_public_params, RerunPresent)

\* The calls of this attempt made again, each on the inputs recorded for it.
ContextAgain ==
    LET a == context_call.args
    IN  CASE context_call.fn = "create_profile_key_credential_request_context" ->
                create_profile_key_credential_request_context(
                    spp, a.randomness, a.uid_bytes, a.profile_key)
          [] context_call.fn = "create_profile_key_credential_v3_request_context" ->
                create_profile_key_credential_v3_request_context(
                    spp, a.randomness, a.uid_bytes, a.profile_key)
          [] context_call.fn = "create_pni_credential_request_context" ->
                create_pni_credential_request_context(
                    spp, a.randomness, a.aci_bytes, a.pni_bytes, a.profile_key)
          [] context_call.fn = "create_receipt_credential_request_context" ->
                create_receipt_credential_request_context(
                    spp, a.randomness, a.receipt_serial_bytes)

IssueAgain ==
    LET a == issue_call.args
    IN  CASE issue_call.fn = "issue_auth_credential" ->
                issue_auth_credential(ssp, a.randomness, a.uid_bytes, a.redemption_time)
          [] issue_call.fn = "issue_profile_key_credential" ->
                issue_profile_key_credential(
                    ssp, a.randomness,
                    ProfileKeyCredentialRequestContext_get_request(context_call.ret),
                    a.uid_bytes, a.commitment)
          [] issue_call.fn = "issue_profile_key_credential_v3" ->
                issue_profile_key_credential_v3(
                    ssp, a.randomness,
                    ProfileKeyCredentialRequestContext_get_request(context_call.ret),
                    a.uid_bytes, a.commitment)
          [] issue_call.fn = "issue_pni_credential" ->
                issue_pni_credential(
                    ssp, a.randomness,
                    ProfileKeyCredentialRequestContext_get_request(context_call.ret),
                    a.uid_bytes, a.pni_bytes, a.commitment)
          [] issue_call.fn = "issue_receipt_credential" ->
                issue_receipt_credential(
                    ssp, a.randomness,
                    ReceiptCredentialRequestContext_get_request(context_call.ret),
                    a.receipt_expiration_time, a.receipt_level)

ReceiveAgain ==
    LET a == receive_call.args
    IN  CASE receive_call.fn = "receive_auth_credential" ->
                receive_auth_credential(spp, a.uid_bytes, a.redemption_time, issue_call.ret)
          [] receive_call.fn = "receive_profile_key_credential" ->
                receive_profile_key_credential(spp, a.context, issue_call.ret.value)
          [] receive_call.fn = "receive_profile_key_credential_v3" ->
                receive_profile_key_credential_v3(spp, a.context, issue_call.ret.value)
          [] receive_call.fn = "receive_pni_credential" ->
                receive_pni_credential(spp, a.context, issue_call.ret.value)
          [] receive_call.fn = "receive_receipt_credential" ->
                receive_receipt_credential(spp, a.context, issue_call.ret)

CreateDefault(randomness, group_seed) ==
    LET g == GroupSecretParams_generate(group_seed)
        c == receive_call.ret.value
    IN  CASE receive_call.fn = "receive_auth_credential" ->
                create_auth_credential_presentation(spp, randomness, g, c)
          [] receive_call.fn = "receive_profile_key_credential" ->
                create_profile_key_credential_presentation(spp, randomness, g, c)
          [] receive_call.fn = "receive_pni_credential" ->
                create_pni_credential_presentation(spp, randomness, g, c)

CreateV1(randomness, group_seed) ==
    LET g == GroupSecretParams_generate(group_seed)
        c == receive_call.ret.value
    IN  CASE receive_call.fn = "receive_auth_credential" ->
                create_auth_credential_presentation_v1(spp, randomness, g, c)
          [] receive_call.fn = "receive_profile_key_credential" ->
                create_profile_key_credential_presentation_v1(spp, randomness, g, c)
          [] receive_call.fn = "receive_pni_credential" ->
                create_pni_credential_presentation_v1(spp, randomness, g, c)

CreateV2(randomness, group_seed) ==
    LET g == GroupSecretParams_generate(group_seed)
        c == receive_call.ret.value
    IN  CASE receive_call.fn = "receive_auth_credential" ->
                create_auth_credential_presentation_v2(spp, randomness, g, c)
          [] receive_call.fn = "receive_profile_key_credential" ->
                create_profile_key_credential_presentation_v2(spp, randomness, g, c)
          [] receive_call.fn = "receive_pni_credential" ->
                create_pni_credential_presentation_v2(spp, randomness, g, c)

\* C17: for Auth, ProfileKey and PNI the unversioned
\* create_<kind>_credential_presentation(r, g, c) returns the V2 variant, and
\* its content is what create_<kind>_credential_presentation_v2(r, g, c)
\* returns; it never returns the V1 variant nor the V1 content.  This holds
\* for every randomness and group, and for the call the attempt recorded.
C17_DefaultIsV2 ==
    /\ (/\ receive_call.fn \in {"receive_auth_credential",
                                "receive_profile_key_credential",
                                "receive_pni_credential"}
        /\ receive_call.ret.ok) =>
           \A randomness \in Randomness : \A group_seed \in GroupSeeds :
               /\ CreateDefault(randomness, group_seed)
                      = [variant |-> "V2",
                         presentation |-> CreateV2(randomness, group_seed)]
               /\ CreateDefault(randomness, group_seed).presentation
                      # CreateV1(randomness, group_seed)
    /\ IsWrapped(present_call) =>
           /\ present_call.ret.variant = "V2"
           /\ present_call.ret.presentation
                  = CreateV2(present_call.args.randomness, present_call.args.group_seed)
           /\ present_call.ret.presentation.version = <<PRESENTATION_VERSION_2>>

\* create_pni_credential_presentation was called and returned the V2 variant
\* holding what create_pni_credential_presentation_v2 returns for the same
\* arguments.
C17_Witness ==
    /\ present_call.fn = "create_pni_credential_presentation"
    /\ present_call.ret.variant = "V2"
    /\ present_call.ret.presentation
           = create_pni_credential_presentation_v2(
                 spp, present_call.args.randomness,
                 GroupSecretParams_generate(present_call.args.group_seed),
                 receive_call.ret.value)

\* ------------------------------------------------------ verify dispatch
\* The outcome of the dispatching verification of p's kind on `self` for p in
\* the variant of its version, and the outcome of the versioned verification
\* of p's version.
DispatchVerify(self, group_public_params, p) ==
    LET any == [variant |-> IF IsV1Struct(p) THEN "V1" ELSE "V2", presentation |-> p]
    IN  IF "ciphertext" \in DOMAIN p
        THEN verify_auth_credential_presentation(self, group_public_params, any)
        ELSE IF "pni_enc_ciphertext" \in DOMAIN p
        THEN verify_pni_credential_presentation(self, group_public_params, any)
        ELSE verify_profile_key_credential_presentation(self, group_public_params, any)

VersionedVerify(self, group_public_params, p) ==
    IF "ciphertext" \in DOMAIN p
    THEN IF IsV1Struct(p)
         THEN verify_auth_credential_presentation_v1(self, group_public_params, p)
         ELSE verify_auth_credential_presentation_v2(self, group_public_params, p)
    ELSE IF "pni_enc_ciphertext" \in DOMAIN p
    THEN IF IsV1Struct(p)
         THEN verify_pni_credential_presentation_v1(self, group_public_params, p)
         ELSE verify_pni_credential_presentation_v2(self, group_public_params, p)
    ELSE IF IsV1Struct(p)
         THEN verify_profile_key_credential_presentation_v1(self, group_public_params, p)
         ELSE verify_profile_key_credential_presentation_v2(self, group_public_params, p)

\* C18: the dispatching verification is the versioned one of the variant it
\* is given.  For Auth, ProfileKey and PNI, on every server and for every
\* group public params, verify_<kind>_credential_presentation(g, V1(p))
\* returns what verify_<kind>_credential_presentation_v1(g, p) returns and
\* verify_<kind>_credential_presentation(g, V2(p)) what .._v2(g, p) returns,
\* for the created presentation and for its material carried in the struct
\* of the other version; so no variant is accepted without its proof check.
C18_DispatchIsVersioned ==
    present_call.fn \in AuthCreate \cup ProfileKeyCreate \cup PniCreate =>
        \A server_seed \in ServerSeeds : \A group_public_params \in GroupPublicParamsValues :
        \A p \in {PresentedStruct, Retype(PresentedStruct)} :
            /\ DispatchVerify(generate(server_seed), group_public_params, p)
                   = VersionedVerify(generate(server_seed), group_public_params, p)
            /\ DispatchVerify(generate(server_seed), group_public_params, p)
                   \in {Ok(Unit), ZkGroupVerificationFailure}

\* The dispatching Auth verification was called on a V1 presentation and
\* returned Ok, as verify_auth_credential_presentation_v1 does; on the other
\* server both reject.
C18_Witness ==
    /\ verify_call.fn = "verify_auth_credential_presentation"
    /\ present_call.fn = "create_auth_credential_presentation_v1"
    /\ Accepted
    /\ verify_auth_credential_presentation_v1(
           generate(verify_call.args.server_seed),
           verify_call.args.group_public_params, present_call.ret) = verify_call.ret
    /\ \E other \in ServerSeeds \ {verify_call.args.server_seed} :
           /\ DispatchVerify(generate(other), verify_call.args.group_public_params,
                             present_call.ret) = ZkGroupVerificationFailure
           /\ VersionedVerify(generate(other), verify_call.args.group_public_params,
                              present_call.ret) = ZkGroupVerificationFailure

\* ------------------------------------------------- PNI request context
\* The fields a PNI request context shares with a profile key one.
SharedContextFields(context) ==
    <<context.profile_key_bytes, context.key_pair,
      context.ciphertext_with_secret_nonce, context.proof>>

\* C19: create_pni_credential_request_context(r, aci, pni, pk) returns a
\* context whose profile_key_bytes, key_pair, ciphertext_with_secret_nonce
\* and proof are those of
\* create_profile_key_credential_request_context(r, aci, pk), whose
\* aci_bytes is that context's uid_bytes and whose pni_bytes is the
\* argument; with any other pni the shared fields are the same.
C19_PniContextReusesProfileKeyContext ==
    context_call.fn = "create_pni_credential_request_context" =>
        LET a == context_call.args
            context == context_call.ret
            profile_key_request_context ==
                create_profile_key_credential_request_context(
                    spp, a.randomness, a.aci_bytes, a.profile_key)
        IN  /\ SharedContextFields(context) = SharedContextFields(profile_key_request_context)
            /\ context.aci_bytes = profile_key_request_context.uid_bytes
            /\ context.pni_bytes = a.pni_bytes
            /\ DOMAIN context = {"reserved", "aci_bytes", "pni_bytes", "profile_key_bytes",
                                 "key_pair", "ciphertext_with_secret_nonce", "proof"}
            /\ \A pni_bytes \in UidBytes :
                   LET other == create_pni_credential_request_context(
                                    spp, a.randomness, a.aci_bytes, pni_bytes, a.profile_key)
                   IN  /\ SharedContextFields(other) = SharedContextFields(context)
                       /\ other.aci_bytes = context.aci_bytes
                       /\ other.pni_bytes = pni_bytes

\* A PNI request context was created for a pni other than the aci, and it
\* carries the key pair, ciphertext and proof of the profile key request
\* context for the same randomness, aci and profile key.
C19_Witness ==
    /\ context_call.fn = "create_pni_credential_request_context"
    /\ context_call.args.pni_bytes # context_call.args.aci_bytes
    /\ context_call.ret.pni_bytes = context_call.args.pni_bytes
    /\ SharedContextFields(context_call.ret)
           = SharedContextFields(create_profile_key_credential_request_context(
                 spp, context_call.args.randomness, context_call.args.aci_bytes,
                 context_call.args.profile_key))

\* -------------------------------------------------------- public params
\* Each kind's key pair field of ServerSecretParams with the public key
\* field of ServerPublicParams of the same kind.
KeyFields ==
    {<<"auth_credentials_key_pair", "auth_credentials_public_key">>,
     <<"profile_key_credentials_key_pair", "profile_key_credentials_public_key">>,
     <<"sig_key_pair", "sig_public_key">>,
     <<"receipt_credentials_key_pair", "receipt_credentials_public_key">>,
     <<"pni_credentials_key_pair", "pni_credentials_public_key">>,
     <<"profile_key_credentials_v3_key_pair", "profile_key_credentials_v3_public_key">>}

\* C20: get_public_params is a deterministic function of the
\* ServerSecretParams: the derived params are those derived again; each
\* kind's public key is the public half of the key pair of the same kind and
\* of no other kind; ServerPublicParams has the six public keys and the
\* reserved bytes as its only fields, and none of them is a key pair or
\* holds a secret key.
C20_PublicParamsArePublicHalves ==
    spp # NoParams =>
        /\ spp = get_public_params(ssp)
        /\ \A server_seed \in ServerSeeds :
           LET self == generate(server_seed)
               public == get_public_params(self)
           IN  /\ DOMAIN public = {"reserved"} \cup {k[2] : k \in KeyFields}
               /\ DOMAIN self = {"reserved"} \cup {k[1] : k \in KeyFields}
               /\ public.reserved = ReservedDefault
               /\ \A k \in KeyFields :
                      /\ public[k[2]] = get_public_key(self[k[1]])
                      /\ "secret" \notin DOMAIN public[k[2]]
                      /\ \A j \in KeyFields :
                             /\ public[k[2]] # self[j[1]]
                             /\ public[k[2]] # self[j[1]].secret
                             /\ j # k => public[k[2]] # get_public_key(self[j[1]])

\* The public params were derived from the issuer's secret params: the pni
\* public key is the public half of the pni key pair, not the key pair and
\* not the V3 public key.
C20_Witness ==
    /\ spp # NoParams
    /\ spp = get_public_params(ssp)
    /\ spp.pni_credentials_public_key = get_public_key(ssp.pni_credentials_key_pair)
    /\ spp.pni_credentials_public_key # ssp.pni_credentials_key_pair
    /\ spp.pni_credentials_public_key
           # get_public_key(ssp.profile_key_credentials_v3_key_pair)


\* ---------------------------------------------------------------------
\* Honest issuance.  In Spec the issuer may be handed any uid and commitment
\* and the holder may receive under any context or attributes.  The
\* presentation, dispatch and determinism properties are about a credential
\* that was issued for the holder's own request and received under the
\* holder's own context; HonestSpec explores exactly those runs, with every
\* presentation and every verification of Spec.  The randomness of a blinded
\* request and of its response is drawn from RequestRandomness; the
\* randomness of auth issuance and of every presentation from Randomness.
RequestRandomness == {1}

HonestNext ==
    \/ \E r \in IssuerSeeds : Generate(r)
    \/ GetPublicParams
    \/ \E r \in RequestRandomness, u \in UidBytes, p \in ProfileKeys :
           CreateProfileKeyCredentialRequestContext(r, u, p)
    \/ \E r \in RequestRandomness, u \in UidBytes, p \in ProfileKeys :
           CreateProfileKeyCredentialV3RequestContext(r, u, p)
    \/ \E r \in RequestRandomness, a \in UidBytes, n \in UidBytes, p \in ProfileKeys :
           CreatePniCredentialRequestContext(r, a, n, p)
    \/ \E r \in RequestRandomness, b \in ReceiptSerials :
           CreateReceiptCredentialRequestContext(r, b)
    \/ \E r \in Randomness, u \in UidBytes, t \in Times : IssueAuthCredential(r, u, t)
    \/ /\ context_call.fn = "create_profile_key_credential_request_context"
       /\ \E r \in RequestRandomness :
              IssueProfileKeyCredential(r, ContextUid, ContextCommitment)
    \/ /\ context_call.fn = "create_profile_key_credential_v3_request_context"
       /\ \E r \in RequestRandomness :
              IssueProfileKeyCredentialV3(r, ContextUid, ContextCommitment)
    \/ /\ context_call.fn = "create_pni_credential_request_context"
       /\ \E r \in RequestRandomness :
              IssuePniCredential(r, ContextUid, context_call.args.pni_bytes,
                                 ContextCommitment)
    \/ \E r \in RequestRandomness, t \in Times, l \in ReceiptLevels :
           IssueReceiptCredential(r, t, l)
    \/ /\ issue_call.fn = "issue_auth_credential"
       /\ ReceiveAuthCredential(issue_call.args.uid_bytes, issue_call.args.redemption_time)
    \/ ReceiveProfileKeyCredential /\ receive_call'.args.context = context_call.ret
    \/ ReceiveProfileKeyCredentialV3 /\ receive_call'.args.context = context_call.ret
    \/ ReceivePniCredential /\ receive_call'.args.context = context_call.ret
    \/ ReceiveReceiptCredential /\ receive_call'.args.context = context_call.ret
    \/ \E r \in Randomness, g \in GroupSeeds : CreateAuthCredentialPresentation(r, g)
    \/ \E r \in Randomness, g \in GroupSeeds : CreateAuthCredentialPresentationV1(r, g)
    \/ \E r \in Randomness, g \in GroupSeeds : CreateAuthCredentialPresentationV2(r, g)
    \/ \E r \in Randomness, g \in GroupSeeds : CreateProfileKeyCredentialPresentation(r, g)
    \/ \E r \in Randomness, g \in GroupSeeds : CreateProfileKeyCredentialPresentationV1(r, g)
    \/ \E r \in Randomness, g \in GroupSeeds : CreateProfileKeyCredentialPresentationV2(r, g)
    \/ \E r \in Randomness, g \in GroupSeeds : CreatePniCredentialPresentation(r, g)
    \/ \E r \in Randomness, g \in GroupSeeds : CreatePniCredentialPresentationV1(r, g)
    \/ \E r \in Randomness, g \in GroupSeeds : CreatePniCredentialPresentationV2(r, g)
    \/ \E r \in Randomness, g \in GroupSeeds : CreateProfileKeyCredentialV3Presentation(r, g)
    \/ \E r \in Randomness : CreateReceiptCredentialPresentation(r)
    \/ \E s \in ServerSeeds, g \in GroupPublicParamsValues : VerifyAuthCredentialPresentation(s, g)
    \/ \E s \in ServerSeeds, g \in GroupPublicParamsValues : VerifyAuthCredentialPresentationV1(s, g)
    \/ \E s \in ServerSeeds, g \in GroupPublicParamsValues : VerifyAuthCredentialPresentationV2(s, g)
    \/ \E s \in ServerSeeds, g \in GroupPublicParamsValues : VerifyProfileKeyCredentialPresentation(s, g)
    \/ \E s \in ServerSeeds, g \in GroupPublicParamsValues : VerifyProfileKeyCredentialPresentationV1(s, g)
    \/ \E s \in ServerSeeds, g \in GroupPublicParamsValues : VerifyProfileKeyCredentialPresentationV2(s, g)
    \/ \E s \in ServerSeeds, g \in GroupPublicParamsValues : VerifyPniCredentialPresentation(s, g)
    \/ \E s \in ServerSeeds, g \in GroupPublicParamsValues : VerifyPniCredentialPresentationV1(s, g)
    \/ \E s \in ServerSeeds, g \in GroupPublicParamsValues : VerifyPniCredentialPresentationV2(s, g)
    \/ \E s \in ServerSeeds, g \in GroupPublicParamsValues : VerifyProfileKeyCredentialV3Presentation(s, g)
    \/ \E s \in ServerSeeds : VerifyReceiptCredentialPresentation(s)

HonestSpec == Init /\ [][HonestNext]_vars


\* ---------------------------------------------------------------------
\* Concurrent callers on one ServerSecretParams / ServerPublicParams.  One
\* caller runs the auth operations (issue, receive, create presentation,
\* verify), another signs and verifies a signature; every method takes &self,
\* so the steps of the two interleave in any order.
ConcurrentNext ==
    \/ \E r \in IssuerSeeds : Generate(r)
    \/ GetPublicParams
    \/ \E r \in Randomness, u \in UidBytes, t \in Times : IssueAuthCredential(r, u, t)
    \/ /\ issue_call.fn = "issue_auth_credential"
       /\ ReceiveAuthCredential(issue_call.args.uid_bytes, issue_call.args.redemption_time)
    \/ \E r \in Randomness, g \in GroupSeeds : CreateAuthCredentialPresentation(r, g)
    \/ \E s \in ServerSeeds, g \in GroupPublicParamsValues : VerifyAuthCredentialPresentation(s, g)
    \/ \E r \in Randomness, m \in Messages : Sign(r, m)
    \/ \E s \in ServerSeeds, m \in Messages : VerifySignature(s, m)

ConcurrentSpec == Init /\ [][ConcurrentNext]_vars


\* ---------------------------------------------------------------------
\* Domain separation.
\* The stream (label and seed) a drawn value came from.
Stream(draw) == [label |-> draw.label, seed |-> draw.seed]

\* Every operation that instantiates a Sho, run with the same randomness on
\* the params of this state, and the stream each one drew from.  The
\* operations that take a credential are given one issued and received with
\* that randomness too.
OperationStreams(randomness) ==
    LET uid_bytes == CHOOSE u \in UidBytes : TRUE
        profile_key == CHOOSE p \in ProfileKeys : TRUE
        commitment == ProfileKey_get_commitment(profile_key, uid_bytes)
        group_secret_params == GroupSecretParams_generate(CHOOSE g \in GroupSeeds : TRUE)
        auth_response == issue_auth_credential(ssp, randomness, uid_bytes,
                                               CHOOSE t \in Times : TRUE).ret
        auth_credential ==
            receive_auth_credential(spp, uid_bytes, CHOOSE t \in Times : TRUE,
                                    auth_response).ret.value
        context == create_profile_key_credential_request_context(
                       spp, randomness, uid_bytes, profile_key)
        response == issue_profile_key_credential(
                        ssp, randomness,
                        ProfileKeyCredentialRequestContext_get_request(context),
                        uid_bytes, commitment).ret.value
        profile_key_credential ==
            receive_profile_key_credential(spp, context, response).ret.value
        context_v3 == create_profile_key_credential_v3_request_context(
                          spp, randomness, uid_bytes, profile_key)
        response_v3 == issue_profile_key_credential_v3(
                           ssp, randomness,
                           ProfileKeyCredentialRequestContext_get_request(context_v3),
                           uid_bytes, commitment).ret.value
        profile_key_credential_v3 ==
            receive_profile_key_credential_v3(spp, context_v3, response_v3).ret.value
        pni_context == create_pni_credential_request_context(
                           spp, randomness, uid_bytes, uid_bytes, profile_key)
        pni_response == issue_pni_credential(
                            ssp, randomness,
                            ProfileKeyCredentialRequestContext_get_request(pni_context),
                            uid_bytes, uid_bytes, commitment).ret.value
        pni_credential == receive_pni_credential(spp, pni_context, pni_response).ret.value
        receipt_context == create_receipt_credential_request_context(
                               spp, randomness, CHOOSE b \in ReceiptSerials : TRUE)
        receipt_response ==
            issue_receipt_credential(
                ssp, randomness,
                ReceiptCredentialRequestContext_get_request(receipt_context),
                CHOOSE t \in Times : TRUE, CHOOSE l \in ReceiptLevels : TRUE).ret
        receipt_credential ==
            receive_receipt_credential(spp, receipt_context, receipt_response).ret.value
    IN  [generate |-> Stream(generate(randomness).sig_key_pair.secret),
         sign |-> Stream(sign(ssp, randomness, CHOOSE m \in Messages : TRUE).rnd),
         issue_auth_credential |-> Stream(auth_response.proof.rnd),
         issue_profile_key_credential |-> Stream(response.proof.rnd),
         issue_profile_key_credential_v3 |-> Stream(response_v3.proof.rnd),
         issue_pni_credential |-> Stream(pni_response.proof.rnd),
         issue_receipt_credential |-> Stream(receipt_response.proof.rnd),
         create_auth_credential_presentation_v1 |->
             Stream(create_auth_credential_presentation_v1(
                        spp, randomness, group_secret_params, auth_credential).proof.rnd),
         create_auth_credential_presentation_v2 |->
             Stream(create_auth_credential_presentation_v2(
                        spp, randomness, group_secret_params, auth_credential).proof.rnd),
         create_profile_key_credential_request_context |-> Stream(context.key_pair.secret),
         create_profile_key_credential_v3_request_context |->
             Stream(context_v3.key_pair.secret),
         create_profile_key_credential_presentation_v1 |->
             Stream(create_profile_key_credential_presentation_v1(
                        spp, randomness, group_secret_params,
                        profile_key_credential).proof.rnd),
         create_profile_key_credential_presentation_v2 |->
             Stream(create_profile_key_credential_presentation_v2(
                        spp, randomness, group_secret_params,
                        profile_key_credential).proof.rnd),
         create_profile_key_credential_v3_presentation |->
             Stream(create_profile_key_credential_v3_presentation(
                        spp, randomness, group_secret_params,
                        profile_key_credential_v3).proof.rnd),
         create_pni_credential_presentation_v1 |->
             Stream(create_pni_credential_presentation_v1(
                        spp, randomness, group_secret_params, pni_credential).proof.rnd),
         create_pni_credential_presentation_v2 |->
             Stream(create_pni_credential_presentation_v2(
                        spp, randomness, group_secret_params, pni_credential).proof.rnd),
         create_receipt_credential_request_context |->
             Stream(receipt_context.key_pair.secret),
         create_receipt_credential_presentation |->
             Stream(create_receipt_credential_presentation(
                        spp, randomness, receipt_credential).proof.rnd)]

\* The streams the calls recorded in this state drew from.
RecordedStreams ==
    {Stream(ssp.sig_key_pair.secret)}
    \cup (IF context_call = NoCall THEN {}
          ELSE {Stream(context_call.ret.key_pair.secret)})
    \cup (IF issue_call = NoCall THEN {}
          ELSE IF issue_call.fn \in {"issue_auth_credential", "issue_receipt_credential"}
          THEN {Stream(issue_call.ret.proof.rnd)}
          ELSE IF issue_call.ret.ok THEN {Stream(issue_call.ret.value.proof.rnd)}
          ELSE {})
    \cup (IF present_call = NoCall THEN {}
          ELSE {Stream(PresentedStruct.proof.rnd)})

\* The number of calls recorded in this state that drew from a stream.
RecordedDraws ==
    1 + (IF context_call = NoCall THEN 0 ELSE 1)
      + (IF issue_call = NoCall \/ (issue_call.fn \notin {"issue_auth_credential", "issue_receipt_credential"} /\ ~issue_call.ret.ok) THEN 0 ELSE 1)
      + (IF present_call = NoCall THEN 0 ELSE 1)

\* C21: every operation that instantiates a Sho uses a label of its own: run
\* with the same randomness, no two of the eighteen operations draw from the
\* same stream, the streams differ in the label alone, and the calls recorded
\* in a state drew from as many streams as there are calls.  The first part
\* depends on the params alone and is evaluated once they are published.
C21_DomainSeparation ==
    spp # NoParams =>
        /\ (context_call = NoCall /\ issue_call = NoCall) =>
               \A randomness \in Randomness :
                   LET streams == OperationStreams(randomness)
                   IN  \A f \in DOMAIN streams : \A g \in DOMAIN streams :
                           /\ streams[f].seed = randomness
                           /\ f # g => streams[f].label # streams[g].label
        /\ Cardinality(RecordedStreams) = RecordedDraws

\* Reached: a request context, its issuance and a presentation were all made
\* with the same randomness, and each drew from a stream of its own.
C21_Witness ==
    /\ context_call # NoCall
    /\ issue_call # NoCall
    /\ present_call # NoCall
    /\ context_call.args.randomness = issue_call.args.randomness
    /\ issue_call.args.randomness = present_call.args.randomness
    /\ Cardinality(RecordedStreams) = 4


\* ---------------------------------------------------------------------
\* C22: verify_signature(message, sign(randomness, message)) returns Ok under
\* the public params derived from the signing secret params, and
\* ZkGroupVerificationFailure for a different message or under the public
\* params of a different server, whatever the randomness.
C22_SignatureRoundTrip ==
    verify_signature_call # NoCall =>
        LET same_server == generate(verify_signature_call.args.server_seed) = ssp
            same_message == verify_signature_call.args.message = sign_call.args.message
        IN  /\ sign_call.ret = sign(ssp, sign_call.args.randomness, sign_call.args.message)
            /\ (same_server /\ same_message) => verify_signature_call.ret = Ok(Unit)
            /\ ~(same_server /\ same_message) =>
                   verify_signature_call.ret = ZkGroupVerificationFailure

\* Reached: a signature was verified for its own message under the signer's
\* public params and accepted.
C22_Witness ==
    /\ verify_signature_call # NoCall
    /\ generate(verify_signature_call.args.server_seed) = ssp
    /\ verify_signature_call.args.message = sign_call.args.message
    /\ verify_signature_call.ret = Ok(Unit)


C24_ConstructionNeverFails ==
    /\ ssp # ZkGroupVerificationFailure
    /\ ssp # NoParams => "sig_key_pair" \in DOMAIN ssp
    /\ spp # ZkGroupVerificationFailure
    /\ spp # NoParams => "sig_public_key" \in DOMAIN spp
    /\ context_call # NoCall =>
           /\ context_call.ret # ZkGroupVerificationFailure
           /\ "key_pair" \in DOMAIN context_call.ret
    /\ present_call # NoCall =>
           /\ present_call.ret # ZkGroupVerificationFailure
           /\ PresentedStruct # ZkGroupVerificationFailure
           /\ "proof" \in DOMAIN PresentedStruct
    /\ issue_call.fn \in {"issue_auth_credential", "issue_receipt_credential"} =>
           /\ issue_call.ret # ZkGroupVerificationFailure
           /\ "proof" \in DOMAIN issue_call.ret
    /\ \A call \in {issue_call, receive_call, verify_call} :
           (call # NoCall /\ call.ret = ZkGroupVerificationFailure) =>
               call.fn \in ProfileKeyFamilyIssue \cup BlindedReceive
                           \cup {"receive_auth_credential"}
                           \cup AuthVerify \cup ProfileKeyVerify \cup PniVerify
                           \cup {"verify_profile_key_credential_v3_presentation",
                                 "verify_receipt_credential_presentation"}

\* Reached: params, a request context and a presentation were constructed,
\* and the verification of that presentation failed.
C24_Witness ==
    /\ context_call # NoCall
    /\ present_call # NoCall
    /\ "proof" \in DOMAIN PresentedStruct
    /\ verify_call # NoCall
    /\ verify_call.ret = ZkGroupVerificationFailure


\* ---------------------------------------------------------------------
\* The state of the issuance attempt (spec 4.3): Uninitialized until the
\* holder has made a request context, Issued while the request is pending
\* (no response yet, or the issuer rejected the request), Responded once an
\* issue call has produced a response, and Verified or Rejected once receive
\* has returned.
Phase ==
    IF receive_call # NoCall
    THEN IF receive_call.ret.ok THEN "Verified" ELSE "Rejected"
    ELSE IF /\ issue_call # NoCall
            /\ \/ issue_call.fn \in {"issue_auth_credential", "issue_receipt_credential"}
               \/ issue_call.ret.ok
    THEN "Responded"
    ELSE IF context_call # NoCall THEN "Issued"
    ELSE "Uninitialized"

\* C25 as stated: every issuance attempt of every kind passes through every
\* state, Uninitialized -> Issued -> Responded -> Verified or Rejected, and
\* skips none.  (issue_auth_credential takes no request: an auth attempt has
\* no Issued state.)
C25_NoStateSkipped ==
    [][\/ Phase' = Phase
       \/ <<Phase, Phase'>> \in {<<"Uninitialized", "Issued">>,
                                 <<"Issued", "Responded">>,
                                 <<"Responded", "Verified">>,
                                 <<"Responded", "Rejected">>}
      ]_vars

\* C25: an issuance attempt moves only along Uninitialized -> Issued ->
\* Responded -> Verified or Rejected, one state at a time (the auth kind has
\* no request, so its attempt enters at Responded with issue_auth_credential).
\* A credential exists only in Verified; Verified is reached only by a receive
\* that verified the issuance proof, accepted it, and was given the context
\* whose request the response was issued for; Rejected holds the failure and
\* no credential, and nothing is presented from it.
C25_AttemptProgression ==
    /\ [][\/ Phase' = Phase
          \/ <<Phase, Phase'>> \in {<<"Uninitialized", "Issued">>,
                                    <<"Issued", "Responded">>,
                                    <<"Responded", "Verified">>,
                                    <<"Responded", "Rejected">>}
          \/ /\ Phase = "Uninitialized"
             /\ Phase' = "Responded"
             /\ issue_call'.fn = "issue_auth_credential"
         ]_vars
    /\ [](/\ Phase = "Verified" =>
                 /\ issue_call # NoCall
                 /\ receive_call.calls[1] = IssuanceProofVerify[receive_call.fn]
                 /\ "value" \in DOMAIN receive_call.ret
                 /\ receive_call.fn \in BlindedReceive =>
                        /\ context_call # NoCall
                        /\ receive_call.args.context.key_pair = context_call.ret.key_pair
                        /\ receive_call.args.context.ciphertext_with_secret_nonce
                               = context_call.ret.ciphertext_with_secret_nonce
          /\ Phase = "Rejected" =>
                 /\ receive_call.ret = ZkGroupVerificationFailure
                 /\ "value" \notin DOMAIN receive_call.ret
                 /\ present_call = NoCall
          /\ Phase \notin {"Verified", "Rejected"} => receive_call = NoCall
          /\ present_call # NoCall => Phase = "Verified")

\* Reached: an attempt with a request context ended Verified, and the
\* credential was presented.
C25_Witness ==
    /\ Phase = "Verified"
    /\ context_call # NoCall
    /\ receive_call.fn \in BlindedReceive
    /\ present_call # NoCall


\* ---------------------------------------------------------------------
\* Acceptance implies issuance.
\* create_<kind>_presentation fn called on the public params self with a
\* credential of the caller's choice (the versioned struct).
CreateStructWith(self, fn, randomness, group_seed, credential) ==
    LET group_secret_params == GroupSecretParams_generate(group_seed)
    IN  CASE fn = "create_auth_credential_presentation" ->
                create_auth_credential_presentation(self, randomness, group_secret_params, credential).presentation
          [] fn = "create_auth_credential_presentation_v1" ->
                create_auth_credential_presentation_v1(self, randomness, group_secret_params, credential)
          [] fn = "create_auth_credential_presentation_v2" ->
                create_auth_credential_presentation_v2(self, randomness, group_secret_params, credential)
          [] fn = "create_profile_key_credential_presentation" ->
                create_profile_key_credential_presentation(self, randomness, group_secret_params, credential).presentation
          [] fn = "create_profile_key_credential_presentation_v1" ->
                create_profile_key_credential_presentation_v1(self, randomness, group_secret_params, credential)
          [] fn = "create_profile_key_credential_presentation_v2" ->
                create_profile_key_credential_presentation_v2(self, randomness, group_secret_params, credential)
          [] fn = "create_profile_key_credential_v3_presentation" ->
                create_profile_key_credential_v3_presentation(self, randomness, group_secret_params, credential)
          [] fn = "create_pni_credential_presentation" ->
                create_pni_credential_presentation(self, randomness, group_secret_params, credential).presentation
          [] fn = "create_pni_credential_presentation_v1" ->
                create_pni_credential_presentation_v1(self, randomness, group_secret_params, credential)
          [] fn = "create_pni_credential_presentation_v2" ->
                create_pni_credential_presentation_v2(self, randomness, group_secret_params, credential)
          [] fn = "create_receipt_credential_presentation" ->
                create_receipt_credential_presentation(self, randomness, credential)

\* The secret keys a holder can come by without the issuer: none, the key
\* pairs of a server it generates itself, and its own request key pair.
HolderKeys ==
    {Garbage}
    \cup {generate(s)[f].secret :
              s \in ServerSeeds \ {IssuerSeed},
              f \in {"auth_credentials_key_pair", "profile_key_credentials_key_pair",
                     "receipt_credentials_key_pair", "pni_credentials_key_pair",
                     "profile_key_credentials_v3_key_pair"}}
    \cup (IF context_call = NoCall THEN {} ELSE {context_call.ret.key_pair.secret})

\* The public params a holder can present under: the issuer's, or those of a
\* server it generates itself.
HolderParams == {get_public_params(generate(s)) : s \in ServerSeeds}

\* C26: a presentation is accepted only by the server whose issue call
\* produced the credential it was built from, and only with ciphertexts that
\* encrypt the attributes that issue call was given; a presentation the holder
\* builds from a credential made without the issuer's secret key, under the
\* issuer's or its own public params, is rejected by the same verification.
C26_AcceptanceImpliesIssuance ==
    Accepted =>
        LET p == PresentedStruct
            held == receive_call.ret.value
            issued == IF issue_call.fn \in ProfileKeyFamilyIssue
                      THEN issue_call.ret.value ELSE issue_call.ret
        IN  /\ SameServer
            /\ issue_call # NoCall
            /\ issue_call.fn \in ProfileKeyFamilyIssue => issue_call.ret.ok
            /\ held.credential.rnd =
                   (IF issue_call.fn = "issue_auth_credential"
                    THEN issued.credential.rnd ELSE issued.blinded_credential.rnd)
            /\ \E f \in {"auth_credentials_key_pair", "profile_key_credentials_key_pair",
                         "receipt_credentials_key_pair", "pni_credentials_key_pair",
                         "profile_key_credentials_v3_key_pair"} :
                   held.credential.issuer = ssp[f].secret
            /\ "ciphertext" \in DOMAIN p =>
                   /\ p.ciphertext.plain = UidStruct_new(issue_call.args.uid_bytes)
                   /\ p.redemption_time = issue_call.args.redemption_time
            /\ "profile_key_enc_ciphertext" \in DOMAIN p =>
                   /\ UidCiphertextOf(p).plain = UidStruct_new(issue_call.args.uid_bytes)
                   /\ ProfileKey_get_commitment(p.profile_key_enc_ciphertext.plain.bytes,
                                                p.profile_key_enc_ciphertext.plain.uid_bytes)
                          = issue_call.args.commitment
            /\ "pni_enc_ciphertext" \in DOMAIN p =>
                   p.pni_enc_ciphertext.plain = UidStruct_new(issue_call.args.pni_bytes)
            /\ "receipt_level" \in DOMAIN p =>
                   /\ p.receipt_expiration_time = issue_call.args.receipt_expiration_time
                   /\ p.receipt_level = issue_call.args.receipt_level
            /\ \A k \in HolderKeys : \A params \in HolderParams :
                   Reverify(CreateStructWith(
                                params, present_call.fn, present_call.args.randomness,
                                PresentGroupSeed,
                                [held EXCEPT !.credential.issuer = k]))
                       = ZkGroupVerificationFailure

\* Reached: a presentation of a blinded credential was accepted by the issuer.
C26_Witness ==
    /\ Accepted
    /\ SameServer
    /\ issue_call.fn \in ProfileKeyFamilyIssue
    /\ "profile_key_enc_ciphertext" \in DOMAIN PresentedStruct
    /\ HolderKeys # {}


\* ---------------------------------------------------------------------
\* Key-kind consistency.
\* The credential kind an operation belongs to, as the stem of the key's
\* field names in ServerSecretParams and ServerPublicParams.
KindOf(fn) ==
    IF fn \in AuthCreate \cup AuthVerify
              \cup {"issue_auth_credential", "receive_auth_credential"}
    THEN "auth_credentials"
    ELSE IF fn \in ProfileKeyCreate \cup ProfileKeyVerify
              \cup {"issue_profile_key_credential", "receive_profile_key_credential"}
    THEN "profile_key_credentials"
    ELSE IF fn \in PniCreate \cup PniVerify
              \cup {"issue_pni_credential", "receive_pni_credential"}
    THEN "pni_credentials"
    ELSE IF fn \in {"issue_receipt_credential", "receive_receipt_credential",
                    "create_receipt_credential_presentation",
                    "verify_receipt_credential_presentation"}
    THEN "receipt_credentials"
    ELSE "profile_key_credentials_v3"

\* The public key and key pair of the kind of fn in the issuer's params.
KindPublicKey(fn) ==
    CASE KindOf(fn) = "auth_credentials" -> spp.auth_credentials_public_key
      [] KindOf(fn) = "profile_key_credentials" -> spp.profile_key_credentials_public_key
      [] KindOf(fn) = "pni_credentials" -> spp.pni_credentials_public_key
      [] KindOf(fn) = "receipt_credentials" -> spp.receipt_credentials_public_key
      [] OTHER -> spp.profile_key_credentials_v3_public_key

KindKeyPair(self, fn) ==
    CASE KindOf(fn) = "auth_credentials" -> self.auth_credentials_key_pair
      [] KindOf(fn) = "profile_key_credentials" -> self.profile_key_credentials_key_pair
      [] KindOf(fn) = "pni_credentials" -> self.pni_credentials_key_pair
      [] KindOf(fn) = "receipt_credentials" -> self.receipt_credentials_key_pair
      [] OTHER -> self.profile_key_credentials_v3_key_pair

\* Key-kind consistency of the operations other than
\* create_profile_key_credential_v3_presentation: the response of issue_K is
\* made with the K key pair, receive_K accepts only a response proved for
\* the K public key, create_K_presentation proves against the K public key
\* and verify_K_presentation accepts only a proof for the public half of the
\* verifier's K key pair.
KeyKindConsistentElsewhere ==
    /\ (issue_call # NoCall /\ (issue_call.fn \in ProfileKeyFamilyIssue => issue_call.ret.ok)) =>
           LET issued == IF issue_call.fn \in ProfileKeyFamilyIssue
                         THEN issue_call.ret.value ELSE issue_call.ret
               credential == IF issue_call.fn = "issue_auth_credential"
                             THEN issued.credential ELSE issued.blinded_credential
           IN  /\ issued.proof.statement[1] = get_public_key(KindKeyPair(ssp, issue_call.fn))
               /\ credential.issuer = KindKeyPair(ssp, issue_call.fn).secret
    /\ (receive_call # NoCall /\ receive_call.ret.ok) =>
           LET issued == IF issue_call.fn \in ProfileKeyFamilyIssue
                         THEN issue_call.ret.value ELSE issue_call.ret
           IN  issued.proof.statement[1] = KindPublicKey(receive_call.fn)
    /\ (present_call # NoCall
            /\ present_call.fn # "create_profile_key_credential_v3_presentation") =>
           PresentedStruct.proof.statement[1] = KindPublicKey(present_call.fn)
    /\ Accepted =>
           PresentedStruct.proof.statement[1] =
               get_public_key(KindKeyPair(generate(verify_call.args.server_seed),
                                          verify_call.fn))

\* C27: key-kind consistency: for every credential kind K, receive_K and
\* create_K_presentation read the K public key of ServerPublicParams and
\* issue_K and verify_K_presentation read the K key pair of
\* ServerSecretParams, so every operation of one kind works against the same
\* key pair; in particular the presentation proof made by
\* create_profile_key_credential_v3_presentation is made for the
\* profile_key_credentials_v3 public key.
C27_KeyKindConsistency ==
    /\ KeyKindConsistentElsewhere
    /\ present_call # NoCall =>
           PresentedStruct.proof.statement[1] = KindPublicKey(present_call.fn)

\* Reached: create_profile_key_credential_v3_presentation made its proof for
\* the profile_key_credentials public key, which is not the key of its kind.
C27_V3PresentationReadsOtherKey ==
    /\ present_call.fn = "create_profile_key_credential_v3_presentation"
    /\ PresentedStruct.proof.statement[1] = spp.profile_key_credentials_public_key
    /\ spp.profile_key_credentials_public_key # spp.profile_key_credentials_v3_public_key


\* ---------------------------------------------------------------------
\* C28: receive_auth_credential binds the holder-supplied attributes: it
\* returns VerificationFailure when the uid_bytes or the redemption_time
\* passed to it differ from those the issuer passed to issue_auth_credential,
\* and on success the returned credential carries exactly the uid and
\* redemption_time supplied to receive and the response's credential
\* unchanged.
C28_ReceiveAuthBindsAttributes ==
    receive_call.fn = "receive_auth_credential" =>
        /\ (\/ receive_call.args.uid_bytes # issue_call.args.uid_bytes
            \/ receive_call.args.redemption_time # issue_call.args.redemption_time)
               => /\ receive_call.ret = ZkGroupVerificationFailure
                  /\ present_call = NoCall
        /\ receive_call.ret.ok =>
               /\ receive_call.ret.value.uid = UidStruct_new(receive_call.args.uid_bytes)
               /\ receive_call.ret.value.redemption_time = receive_call.args.redemption_time
               /\ receive_call.ret.value.credential = issue_call.ret.credential
               /\ DOMAIN receive_call.ret.value =
                      {"reserved", "credential", "uid", "redemption_time"}

\* Reached: receive_auth_credential was called with the issuer's uid and
\* another redemption time than the issuer's, and failed.
C28_Witness ==
    /\ receive_call.fn = "receive_auth_credential"
    /\ receive_call.args.uid_bytes = issue_call.args.uid_bytes
    /\ receive_call.args.redemption_time # issue_call.args.redemption_time
    /\ receive_call.ret = ZkGroupVerificationFailure


\* ---------------------------------------------------------------------
\* C29: receipt attributes flow unchanged end to end: the response of
\* issue_receipt_credential carries the expiration time and level the issuer
\* passed in; the credential returned by receive_receipt_credential carries
\* those two values from the response and the serial from the holder's
\* context; and create_receipt_credential_presentation copies exactly these
\* three values into the presentation, whatever randomness is used.
C29_ReceiptAttributesFlow ==
    /\ issue_call.fn = "issue_receipt_credential" =>
           /\ issue_call.ret.receipt_expiration_time = issue_call.args.receipt_expiration_time
           /\ issue_call.ret.receipt_level = issue_call.args.receipt_level
    /\ (receive_call.fn = "receive_receipt_credential" /\ receive_call.ret.ok) =>
           LET held == receive_call.ret.value
           IN  /\ held.receipt_expiration_time = issue_call.ret.receipt_expiration_time
               /\ held.receipt_level = issue_call.ret.receipt_level
               /\ held.receipt_serial_bytes = receive_call.args.context.receipt_serial_bytes
               /\ \A r \in Randomness :
                      LET p == create_receipt_credential_presentation(spp, r, held)
                      IN  /\ p.receipt_expiration_time = held.receipt_expiration_time
                          /\ p.receipt_level = held.receipt_level
                          /\ p.receipt_serial_bytes = held.receipt_serial_bytes
    /\ present_call.fn = "create_receipt_credential_presentation" =>
           /\ present_call.ret.receipt_expiration_time = issue_call.args.receipt_expiration_time
           /\ present_call.ret.receipt_level = issue_call.args.receipt_level
           /\ present_call.ret.receipt_serial_bytes =
                  receive_call.args.context.receipt_serial_bytes
           /\ get_receipt_struct(present_call.ret) =
                  ReceiptStruct_new(receive_call.args.context.receipt_serial_bytes,
                                    issue_call.args.receipt_expiration_time,
                                    issue_call.args.receipt_level)

\* Reached: a receipt presentation was created for a credential issued with
\* an expiration time and a level of different values.
C29_Witness ==
    /\ present_call.fn = "create_receipt_credential_presentation"
    /\ issue_call.args.receipt_expiration_time # issue_call.args.receipt_level
    /\ present_call.ret.receipt_level = issue_call.args.receipt_level
    /\ present_call.args.randomness # issue_call.args.randomness


VersionTag(p) == IF "version" \in DOMAIN p THEN p.version ELSE p.reserved

\* C31: version tag stamping: every presentation created by a *_v1 operation
\* carries PRESENTATION_VERSION_1 in its leading byte array, every
\* presentation created by a *_v2 operation carries PRESENTATION_VERSION_2
\* and every ProfileKeyCredentialV3Presentation carries
\* PROFILE_KEY_CREDENTIAL_VERSION_3; the tag of a created presentation
\* matches the Any* variant or the type it is delivered in (for every
\* create operation of the kind, on the credential of this attempt).
C31_VersionTagStamped ==
    (present_call # NoCall /\ present_call.fn # "create_receipt_credential_presentation") =>
        /\ IsV1(present_call) =>
               /\ present_call.ret.reserved = <<PRESENTATION_VERSION_1>>
               /\ "version" \notin DOMAIN present_call.ret
        /\ (~IsV1(present_call) /\ ~IsWrapped(present_call)
                /\ present_call.fn # "create_profile_key_credential_v3_presentation") =>
               present_call.ret.version = <<PRESENTATION_VERSION_2>>
        /\ present_call.fn = "create_profile_key_credential_v3_presentation" =>
               present_call.ret.version = <<PROFILE_KEY_CREDENTIAL_VERSION_3>>
        /\ IsWrapped(present_call) =>
               /\ present_call.ret.variant \in {"V1", "V2"}
               /\ VersionTag(present_call.ret.presentation) =
                      (IF present_call.ret.variant = "V1"
                       THEN <<PRESENTATION_VERSION_1>> ELSE <<PRESENTATION_VERSION_2>>)
        /\ \A fn \in SameKindCreate :
               LET p == CreateStructOf(fn, present_call.args.randomness, PresentGroupSeed)
               IN  VersionTag(p) =
                       (IF fn = "create_profile_key_credential_v3_presentation"
                        THEN <<PROFILE_KEY_CREDENTIAL_VERSION_3>>
                        ELSE IF IsV1([fn |-> fn])
                        THEN <<PRESENTATION_VERSION_1>>
                        ELSE <<PRESENTATION_VERSION_2>>)

\* Reached: a presentation was created by a *_v1 operation and carries the
\* V1 tag, while the default operation of its kind delivers the V2 tag in the
\* V2 variant.
C31_Witness ==
    /\ present_call.fn = "create_auth_credential_presentation_v1"
    /\ VersionTag(present_call.ret) = <<PRESENTATION_VERSION_1>>
    /\ VersionTag(CreateStructOf("create_auth_credential_presentation",
                                 present_call.args.randomness, PresentGroupSeed))
           = <<PRESENTATION_VERSION_2>>
    /\ PRESENTATION_VERSION_1 # PRESENTATION_VERSION_2


\* ---------------------------------------------------------------------
\* Key generation.
\* The key pair fields of ServerSecretParams in declaration order.
KeyPairFields ==
    <<"auth_credentials_key_pair", "profile_key_credentials_key_pair",
      "sig_key_pair", "receipt_credentials_key_pair", "pni_credentials_key_pair",
      "profile_key_credentials_v3_key_pair">>

\* C32: ServerSecretParams::generate draws its six key pairs from a single
\* Sho stream in the fixed order auth, profile-key, signature, receipt, PNI,
\* profile-key-v3; the key pairs are pairwise distinct and depend only on the
\* seed (the issuer's params in every state are those of its seed, whatever
\* was called since), and the first five are the first five key pairs of
\* the stream, with or without the sixth draw after them.
C32_KeyPairsFromOneStream ==
    /\ (context_call = NoCall /\ issue_call = NoCall) => \A r \in Randomness :
           LET sho == Sho_new("Signal_ZKGroup_20200424_Random_ServerSecretParams_Generate", r)
               params == generate(r)
               five == [i \in 1..5 |-> KeyPair_generate(sho, i - 1)]
           IN  /\ DOMAIN params = {"reserved"} \cup {KeyPairFields[i] : i \in 1..6}
               /\ \A i \in 1..6 : params[KeyPairFields[i]] = KeyPair_generate(sho, i - 1)
               /\ \A i \in 1..5 : params[KeyPairFields[i]] = five[i]
               /\ \A i, j \in 1..6 :
                      i # j => /\ params[KeyPairFields[i]] # params[KeyPairFields[j]]
                               /\ get_public_key(params[KeyPairFields[i]])
                                      # get_public_key(params[KeyPairFields[j]])
    /\ ssp # NoParams =>
           /\ \E r \in IssuerSeeds : ssp = generate(r)
           /\ spp # NoParams => spp = get_public_params(generate(IssuerSeed))

\* Reached: the server's params were generated, operations up to a
\* verification have run on them, and another seed gives other key pairs.
C32_Witness ==
    /\ ssp # NoParams
    /\ verify_call # NoCall
    /\ ssp = generate(IssuerSeed)
    /\ \A r \in Randomness \ {IssuerSeed} :
           generate(r).auth_credentials_key_pair # ssp.auth_credentials_key_pair
    /\ ssp.pni_credentials_key_pair # ssp.profile_key_credentials_v3_key_pair


\* ---------------------------------------------------------------------
\* Repeated calls.
\* The holder calls the receive_* operation of this attempt again with the
\* same context (attributes) and response; the call is recorded in place of
\* the earlier one.
RepeatReceive ==
    /\ receive_call # NoCall
    /\ receive_call' = [receive_call EXCEPT !.ret = ReceiveAgain.ret,
                                            !.calls = ReceiveAgain.calls]
    /\ UNCHANGED <<ssp, spp, context_call, issue_call, present_call, verify_call, sign_call, verify_signature_call>>

\* Faulty variant of RepeatVerify: the verifier keeps a record of accepted
\* presentations and rejects one it has accepted before.
RepeatVerify_once_only ==
    /\ verify_call # NoCall
    /\ verify_call' =
           [verify_call EXCEPT !.ret =
                IF verify_call.ret = Ok(Unit) THEN ZkGroupVerificationFailure
                ELSE VerifyUnder(generate(verify_call.args.server_seed))]
    /\ UNCHANGED <<ssp, spp, context_call, issue_call, receive_call, present_call, sign_call, verify_signature_call>>

\* The verifier calls the verify_* operation of this attempt again with the
\* same presentation and group public params.
RepeatVerify ==
    /\ verify_call # NoCall
    /\ verify_call' =
           [verify_call EXCEPT !.ret = VerifyUnder(generate(verify_call.args.server_seed))]
    /\ UNCHANGED <<ssp, spp, context_call, issue_call, receive_call, present_call, sign_call, verify_signature_call>>

ReplayNext ==
    \/ Next
    \/ RepeatReceive
    \/ RepeatVerify

ReplaySpec == Init /\ [][ReplayNext]_vars

====
